---- MODULE Spec2Model ----
(***************************************************************************)
(* Baseline & leakage pipeline and consent-gated allocation of             *)
(* popeeliots-fintraq/finance-app-backend, modelled at the level of the    *)
(* service methods (LeakageService, OrchestrationService,                  *)
(* FixedCommitmentService).                                                *)
(*                                                                         *)
(* Money is an integer number of hundredths ("cents"): 500.00 is 50000.    *)
(* Multipliers (EFS, city multiplier, efficiency factor) are integers in   *)
(* hundredths as well.  Python Decimal arithmetic is modelled with its     *)
(* context precision: ml/scaling_logic.py and ml/efs_calculator.py set     *)
(* getcontext().prec = 4 in the importing thread, every other thread       *)
(* keeps the default 28, so each call runs under one of the two.           *)
(***************************************************************************)
EXTENDS Integers, Sequences, FiniteSets, TLC

\* ------------------------------------------------------------------------
\* Bounds of the model (not program constants)
\* ------------------------------------------------------------------------
MaxLedger == 2
MaxTx == 1

\* adults and dependents per age band of a household
MaxAdults == 2

MaxDependents == 2

\* ------------------------------------------------------------------------
\* decimal.Decimal arithmetic under a context precision
\* ------------------------------------------------------------------------
\* 10^k for the exponents that occur (k <= 9)
Pow10(k) ==
    IF k <= 0 THEN 1
    ELSE << 10, 100, 1000, 10000, 100000, 1000000, 10000000, 100000000,
            1000000000 >>[k]

\* number of decimal digits of the coefficient n >= 0
Digits(n) ==
    IF n < 10 THEN 1 ELSE IF n < 100 THEN 2 ELSE IF n < 1000 THEN 3
    ELSE IF n < 10000 THEN 4 ELSE IF n < 100000 THEN 5
    ELSE IF n < 1000000 THEN 6 ELSE IF n < 10000000 THEN 7
    ELSE IF n < 100000000 THEN 8 ELSE IF n < 1000000000 THEN 9 ELSE 10

Abs(v) == IF v < 0 THEN -v ELSE v

Min(a, b) == IF a <= b THEN a ELSE b

Max(a, b) == IF a >= b THEN a ELSE b

\* n / q rounded to an integer, ties to even (decimal.ROUND_HALF_EVEN), n >= 0
RoundHalfEven(n, q) ==
    LET d == n \div q
        r == n % q
    IN  IF 2 * r > q \/ (2 * r = q /\ d % 2 = 1) THEN d + 1 ELSE d

\* n / q rounded to an integer, ties away from zero (decimal.ROUND_HALF_UP), n >= 0
RoundHalfUp(n, q) ==
    LET d == n \div q
        r == n % q
    IN  IF 2 * r >= q THEN d + 1 ELSE d

\* The two precisions a call can run under
Precisions == {4, 28}

\* Result of an arithmetic operation whose exact value is v cents:
\* rounded to prec significant digits, ties to even
RoundSig(prec, v) ==
    LET a == Abs(v)
        k == Digits(a) - prec
        r == IF k <= 0 THEN a ELSE RoundHalfEven(a, Pow10(k)) * Pow10(k)
    IN  IF v < 0 THEN -r ELSE r

DAdd(prec, a, b) == RoundSig(prec, a + b)

DSub(prec, a, b) == RoundSig(prec, a - b)

\* x.quantize(Decimal("0.01")) of a value of v cents signals InvalidOperation
\* when the coefficient of the result has more digits than the precision
QuantizeOK(prec, v) == Digits(Abs(v)) <= prec

\* A Decimal as coefficient c and scale s: the value c * 10^(-s), c >= 0
RECURSIVE DNorm(_)
DNorm(d) ==
    IF d.c # 0 /\ d.c % 10 = 0 THEN DNorm([c |-> d.c \div 10, s |-> d.s - 1])
    ELSE d

\* a Decimal rounded to the context precision
DRound(prec, d) ==
    IF Digits(d.c) <= prec THEN d
    ELSE [c |-> RoundHalfEven(d.c, Pow10(Digits(d.c) - prec)),
          s |-> d.s - (Digits(d.c) - prec)]

\* the exact product of two normalised Decimals
DProduct(x, y) == [c |-> x.c * y.c, s |-> x.s + y.s]

DMul(prec, a, b) == DRound(prec, DProduct(DNorm(a), DNorm(b)))

\* the value of d in cents after quantize(Decimal("0.01")), ties to even
DCents(d) ==
    IF d.s <= 2 THEN d.c * Pow10(2 - d.s)
    ELSE RoundHalfEven(d.c, Pow10(d.s - 2))

\* a two-decimal quantity (cents or hundredths) as a Decimal
D2(v) == [c |-> v, s |-> 2]

\* num / den as a Decimal with 7 decimals and a sticky last digit
RECURSIVE DivDigits(_, _, _)
DivDigits(acc, den, k) ==
    IF k = 0 THEN acc
    ELSE DivDigits([ q |-> acc.q * 10 + (acc.rem * 10) \div den,
                     rem |-> (acc.rem * 10) % den ], den, k - 1)

DDiv(prec, num, den) ==
    LET r == DivDigits([ q |-> num \div den, rem |-> num % den ], den, 7)
    IN  DRound(prec, [ c |-> r.q * 10 + (IF r.rem = 0 THEN 0 ELSE 1), s |-> 8 ])

\* d.quantize(Decimal("0.0001")) in ten-thousandths
DQuant4(d) ==
    IF d.s <= 4 THEN d.c * Pow10(4 - d.s) ELSE RoundHalfEven(d.c, Pow10(d.s - 4))

\* ------------------------------------------------------------------------
\* ml/scaling_logic.py
\* ------------------------------------------------------------------------
\* the keys of BASE_NEEDS_INDEX in insertion (iteration) order
BaseNeedsOrder ==
    << "Variable_Essential_Food", "Variable_Essential_Transport",
       "Variable_Essential_Health", "Scaled_Discretionary_Routine" >>

ScaledCategories == { BaseNeedsOrder[i] : i \in 1..Len(BaseNeedsOrder) }

BASE_NEEDS_INDEX ==
    [ Variable_Essential_Food |-> 500000,
      Variable_Essential_Transport |-> 250000,
      Variable_Essential_Health |-> 150000,
      Scaled_Discretionary_Routine |-> 100000 ]

CITY_COST_MULTIPLIERS(city_tier) ==
    CASE city_tier = "Tier 1" -> 125
      [] city_tier = "Tier 2" -> 110
      [] city_tier = "Tier 3" -> 100
      [] city_tier = "Tier 4" -> 90
      [] OTHER -> 100

DEFAULT_EFFICIENCY_FACTORS(income_slab) ==
    CASE income_slab = "High" -> 90
      [] income_slab = "Medium" -> 100
      [] income_slab = "Low" -> 105
      [] OTHER -> 100

LEAK_SAVINGS_MARGIN_PERCENTAGE == 15

\* benchmark_efficiency_factor=None
NoFactor == -1

\* a dict keyed by the categories of BASE_NEEDS_INDEX, its values computed
\* once when the dict is built
PerCategory(f) ==
    [ Variable_Essential_Food |-> f["Variable_Essential_Food"],
      Variable_Essential_Transport |-> f["Variable_Essential_Transport"],
      Variable_Essential_Health |-> f["Variable_Essential_Health"],
      Scaled_Discretionary_Routine |-> f["Scaled_Discretionary_Routine"] ]

\* sum of f over the first n categories of BaseNeedsOrder, left to right
RECURSIVE SumOver(_, _, _)
SumOver(prec, f, n) ==
    IF n = 0 THEN 0
    ELSE DAdd(prec, SumOver(prec, f, n - 1), f[BaseNeedsOrder[n]])

\* the first loop of calculate_dynamic_baseline: the DMB of one category
CategoryDMB(prec, base_need, equivalent_family_size, city_multiplier, efficiency_factor) ==
    DCents(DMul(prec,
             DMul(prec,
               DMul(prec, D2(base_need), D2(equivalent_family_size)),
               D2(city_multiplier)),
             D2(efficiency_factor)))

\* the second loop: the leakage threshold of one category
CategoryThreshold(prec, dmb_amount) ==
    DCents(DMul(prec, D2(dmb_amount), D2(100 - LEAK_SAVINGS_MARGIN_PERCENTAGE)))

\* the totals and the returned dict; ok is FALSE when a quantize raises
BaselineTotals(prec, category_dmb, category_threshold, total_minimal_need_dmb, final_leakage_threshold) ==
    [ ok |-> /\ \A cat \in ScaledCategories :
                    /\ QuantizeOK(prec, category_dmb[cat])
                    /\ QuantizeOK(prec, category_threshold[cat])
             /\ QuantizeOK(prec, final_leakage_threshold)
             /\ QuantizeOK(prec, total_minimal_need_dmb)
             /\ QuantizeOK(prec, DSub(prec, total_minimal_need_dmb,
                                            final_leakage_threshold)),
      thresholds |-> category_threshold,
      Total_Leakage_Threshold |-> final_leakage_threshold,
      Total_Minimal_Need_DMB |-> total_minimal_need_dmb,
      Potential_Recoverable_Fund |->
          DSub(prec, total_minimal_need_dmb, final_leakage_threshold) ]

BaselineThresholds(prec, category_dmb, category_threshold) ==
    BaselineTotals(prec, category_dmb, category_threshold,
                   SumOver(prec, category_dmb, Len(BaseNeedsOrder)),
                   SumOver(prec, category_threshold, Len(BaseNeedsOrder)))

\* the dict is not returned when the quantize of a category DMB raises
BaselineRaised ==
    [ ok |-> FALSE, thresholds |-> PerCategory([cat \in ScaledCategories |-> 0]),
      Total_Leakage_Threshold |-> 0, Total_Minimal_Need_DMB |-> 0,
      Potential_Recoverable_Fund |-> 0 ]

BaselineCategories(prec, category_dmb) ==
    IF \E cat \in ScaledCategories : ~ QuantizeOK(prec, category_dmb[cat])
    THEN BaselineRaised
    ELSE BaselineThresholds(prec, category_dmb,
             PerCategory([cat \in ScaledCategories |->
                 CategoryThreshold(prec, category_dmb[cat])]))

\* calculate_dynamic_baseline
calculate_dynamic_baseline(prec, net_income, equivalent_family_size, city_tier, income_slab, benchmark_efficiency_factor) ==
    BaselineCategories(prec,
        PerCategory([cat \in ScaledCategories |->
            CategoryDMB(prec, BASE_NEEDS_INDEX[cat], equivalent_family_size,
                        CITY_COST_MULTIPLIERS(city_tier),
                        IF benchmark_efficiency_factor # NoFactor
                        THEN benchmark_efficiency_factor
                        ELSE DEFAULT_EFFICIENCY_FACTORS(income_slab))]))

\* ------------------------------------------------------------------------
\* ml/efs_calculator.py
\* ------------------------------------------------------------------------
\* calculate_equivalent_family_size, in hundredths
calculate_equivalent_family_size_per_head(prec, h) == RoundSig(prec, 400 \div (h.num_adults + h.num_dependents_under_6 + h.num_dependents_6_to_17 + h.num_dependents_over_18))

calculate_equivalent_family_size(prec, h) ==
    LET e1 == IF h.num_adults > 1
              THEN DAdd(prec, 100, RoundSig(prec, (h.num_adults - 1) * 75))
              ELSE 100
        e2 == DAdd(prec, e1, RoundSig(prec, h.num_dependents_over_18 * 50))
        e3 == DAdd(prec, e2, RoundSig(prec, h.num_dependents_6_to_17 * 33))
    IN  DAdd(prec, e3, RoundSig(prec, h.num_dependents_under_6 * 25))

\* ------------------------------------------------------------------------
\* Input sets of the model
\* ------------------------------------------------------------------------
\* User.monthly_salary
Salaries == {6000000}

\* household composition of the user (2 adults, one dependent aged 6-17)
Households ==
    { [num_adults |-> 2, num_dependents_under_6 |-> 0,
       num_dependents_6_to_17 |-> 1, num_dependents_over_18 |-> 0] }

\* household compositions of the profile pipeline: at least one adult
HouseholdInputs ==
    { [num_adults |-> a, num_dependents_under_6 |-> u,
       num_dependents_6_to_17 |-> m, num_dependents_over_18 |-> o] :
      a \in 1..MaxAdults, u \in 0..MaxDependents, m \in 0..MaxDependents,
      o \in 0..MaxDependents }

\* a period profile of another user, as the cohort query returns it;
\* variable_spend_total NoSpend stands for None
NoSpend == -1

Member(net_monthly_income, fixed_commitment_total, variable_spend_total) ==
    [ net_monthly_income |-> net_monthly_income,
      fixed_commitment_total |-> fixed_commitment_total,
      variable_spend_total |-> variable_spend_total ]

\* cohorts below the minimum size, with different members
SmallCohorts ==
    { << Member(6000000, 2000000, 2400000), Member(5000000, 1000000, 3600000),
         Member(7000000, 3000000, 1000000) >>,
      << Member(4000000, 2000000, 0), Member(9000000, 1000000, 7900000),
         Member(3000000, 1000000, NoSpend) >>,
      << Member(6000000, 2000000, 0), Member(6000000, 2000000, 0),
         Member(6000000, 2000000, 0), Member(6000000, 2000000, 0) >>,
      << >> }

\* a cohort of the minimum size whose most frugal member spends 0.60 of
\* the variable pool
FullCohort ==
    << Member(6000000, 2000000, 3200000), Member(6000000, 2000000, 2400000),
       Member(6000000, 2000000, 3600000), Member(6000000, 2000000, 2800000),
       Member(6000000, 2000000, 3000000) >>

\* cohorts of at least the minimum size: with None spends, and with members
\* that have recorded no variable spend
LargeCohorts ==
    { FullCohort,
      << Member(6000000, 2000000, 3200000), Member(6000000, 2000000, NoSpend),
         Member(6000000, 2000000, 3600000), Member(6000000, 2000000, 2800000),
         Member(6000000, 2000000, 3000000), Member(5000000, 1000000, 3999000) >>,
      << Member(6000000, 2000000, 3200000), Member(6000000, 2000000, 0),
         Member(6000000, 2000000, 3600000), Member(5000000, 1000000, 0),
         Member(6000000, 2000000, 3000000) >> }

Cohorts == SmallCohorts \cup LargeCohorts

\* what one calculate_leakage call reads from outside the period's rows:
\* the peer cohort the benchmarking query returns, the sum of this fiscal
\* year's TaxCommitment rows, and the months of the fiscal year passed at
\* date.today()
Environments ==
    { [ cohort |-> << Member(6000000, 2000000, 2400000),
                      Member(5000000, 1000000, 3600000),
                      Member(7000000, 3000000, 1000000) >>,
        tax_committed |-> 0, months_passed |-> 1 ],
      [ cohort |-> FullCohort, tax_committed |-> 15000000,
        months_passed |-> 8 ] }

\* categories and amounts of the categorized DEBIT transactions of the period
PDCategories == {"Pure_Discretionary_DiningOut", "Pure_Discretionary_Gadget"}

SpendCategories == ScaledCategories \cup PDCategories \cup {"Groceries"}

\* the categorized DEBIT transactions that can arrive: category and amount
TxInputs ==
    { <<"Variable_Essential_Food", 700000>>,
      <<"Pure_Discretionary_DiningOut", 50000>> }

\* monthly totals of the user's Food spending in the look-back window
HistoryChoices == { <<700001, 500000>> }

\* lookback total of the fixed-commitment transactions
FixedTotals == {8000000}

\* ------------------------------------------------------------------------
\* State
\* ------------------------------------------------------------------------
VARIABLES
    user,               \* the users row (db/base.py User)
    financial_profile,  \* the financial_profiles row of the user
    salary_profile,     \* the salary_allocation_profiles row of the period
    rules,              \* smart_transfer_rules rows, by rule id
    ledger,             \* DEBIT_INTERNAL transactions rows, in insertion order
    spends,             \* period-to-date DEBIT total per category
    tx_count,           \* number of DEBIT transactions ingested
    history,            \* monthly totals per category in the look-back window
    leakage_computed,   \* whether calculate_leakage has committed a result
                        \* on the period profile
    last,               \* the last call: operation, arguments and outcome
    sessions,           \* the requests in flight, each with its own database
                        \* session: what it has loaded and what it will write
    smart_transfer_rule,\* the smart_transfer_rule rows of the user and the
                        \* next value of the rule_id sequence
    profile_rows        \* number of salary_allocation_profile rows stored for
                        \* the (user, reporting period) of the requests

vars == << user, financial_profile, salary_profile, rules, ledger, spends,
           tx_count, history, leakage_computed, last, sessions,
           smart_transfer_rule, profile_rows >>

NoProfile ==
    [ exists |-> FALSE, net_monthly_income |-> 0, fixed_commitment_total |-> 0,
      variable_spend_total |-> 0, projected_reclaimable_salary |-> 0,
      total_autotransferred |-> 0, tax_headroom_remaining |-> 0 ]

\* SalaryAllocationProfile(...) with the column defaults
NewSalaryProfile(net_monthly_income, fixed_commitment_total) ==
    [ NoProfile EXCEPT !.exists = TRUE,
                       !.net_monthly_income = net_monthly_income,
                       !.fixed_commitment_total = fixed_commitment_total ]

NoFinancialProfile ==
    [ exists |-> FALSE, e_family_size |-> 0, essential_target |-> 0,
      benchmark_efficiency_factor |-> 0, baseline_adjustment_factor |-> 0 ]

\* the column defaults of a financial_profiles row created by a service:
\* e_family_size 1.00, benchmark_efficiency_factor 1.000 (in hundredths),
\* essential_target 0.00, baseline_adjustment_factor 1.000 (in ten-thousandths)
NewFinancialProfile ==
    [ exists |-> TRUE, e_family_size |-> 100, essential_target |-> 0,
      benchmark_efficiency_factor |-> 100, baseline_adjustment_factor |-> 10000 ]

\* the row a service works on: the stored one, or a new one
FetchOrCreateFinancialProfile ==
    IF financial_profile.exists THEN financial_profile ELSE NewFinancialProfile

RuleIds == 1..3

\* rule_type values: RuleType.TAX_SAVING.value and a goal
TAX_SAVING == "TAX_SAVING"

InitialRules ==
    [ id \in RuleIds |->
        [ rule_type |-> IF id = 3 THEN "GOAL" ELSE TAX_SAVING,
          priority |-> 4 - id,
          is_active |-> TRUE,
          target_amount_monthly |-> CASE id = 1 -> 400000
                                      [] id = 2 -> 800000
                                      [] OTHER -> 600000,
          amount_allocated_mtd |-> 0 ] ]

\* two requests can be in flight for the same (user, period)
SessionIds == 1..2

\* a request that has not started
IdleSession ==
    [ pc |-> "idle", op |-> "none", committed |-> FALSE, loaded |-> NoProfile,
      profile |-> NoProfile, added |-> <<>>, total_transferred |-> 0 ]

\* the INSERT of the period row a service has added when it found none
CountInsert ==
    profile_rows' = IF salary_profile'.exists /\ ~ salary_profile.exists
                    THEN profile_rows + 1 ELSE profile_rows

\* the empty smart_transfer_rule table
NoSmartRules == [ rows |-> {}, next_rule_id |-> 1 ]

BlankLast ==
    [ op |-> "none", status |-> "ok", committed |-> FALSE,
      plan |-> <<>>, total_transferred |-> 0,
      available_fund |-> 0, total_suggested |-> 0,
      standby |-> FALSE,
      has_remaining |-> FALSE, remaining_unallocated |-> 0,
      suggestion_plan |-> <<>>,
      projected |-> 0, total_leakage |-> 0, buckets |-> {},
      thresholds |-> <<>>, medians |-> <<>>, final_dmb |-> <<>>,
      cohort_results |-> <<>>, benchmark_factor |-> 0, error |-> "" ]

Init ==
    /\ user \in { [ monthly_salary |-> sal, city_tier |-> "Tier 3",
                    income_slab |-> "Medium", household |-> h ] :
                  sal \in Salaries, h \in Households }
    /\ financial_profile = NoFinancialProfile
    /\ salary_profile = NoProfile
    /\ rules = InitialRules
    /\ ledger = <<>>
    /\ spends = [ c \in SpendCategories |-> 0 ]
    /\ tx_count = 0
    /\ history \in { [ c \in ScaledCategories |->
                         IF c = "Variable_Essential_Food" THEN hs ELSE <<>> ] :
                     hs \in HistoryChoices }
    /\ leakage_computed = FALSE
    /\ last = BlankLast
    /\ sessions = [ s \in SessionIds |-> IdleSession ]
    /\ smart_transfer_rule = NoSmartRules
    /\ profile_rows = 0

\* ------------------------------------------------------------------------
\* services/leakage_service.py
\* ------------------------------------------------------------------------
LOOKBACK_MONTHS == 4

GLOBAL_MINIMAL_BASELINE_FLOOR == 1500000

ANNUAL_MAX_TAX_SAVING_LIMIT == 15000000

\* sorted(list(...)): ascending
RECURSIVE SortedTotals(_)
SortedTotals(q) ==
    IF Len(q) <= 1 THEN q
    ELSE LET i == CHOOSE j \in 1..Len(q) : \A k \in 1..Len(q) : q[j] <= q[k]
             rest == [ k \in 1..(Len(q) - 1) |-> IF k < i THEN q[k] ELSE q[k + 1] ]
         IN  <<q[i]>> \o SortedTotals(rest)

\* the median of the monthly totals of one category and whether its
\* quantize(Decimal("0.01")) succeeds
MedianOf(prec, monthly_data) ==
    LET monthly_totals == SortedTotals(monthly_data)
        n == Len(monthly_totals)
        two == DAdd(prec, monthly_totals[n \div 2], monthly_totals[n \div 2 + 1])
        median == IF n % 2 = 1 THEN monthly_totals[n \div 2 + 1]
                  ELSE DCents(DRound(prec, IF two % 2 = 0
                                           THEN D2(two \div 2)
                                           ELSE [c |-> two * 5, s |-> 3]))
    IN  [ ok |-> QuantizeOK(prec, median), median |-> median ]

\* _calculate_user_historical_spend: the categories with history and their medians
HistoryCategories == { c \in DOMAIN history : Len(history[c]) > 0 }

historical_median_spends(prec) ==
    [ c \in HistoryCategories |-> MedianOf(prec, history[c]) ]

\* calculate_final_dmb_with_history: MAX(EFS threshold, user median) per category
ReconciledBaselinesNoHistory(thresholds, medians) == PerCategory(thresholds)

ReconciledBaselines(thresholds, medians) ==
    PerCategory([c \in ScaledCategories |->
        Max(thresholds[c], IF c \in DOMAIN medians THEN medians[c].median ELSE 0)])

ReconciledResult(prec, medians, final_category_dmb) ==
    [ ok |-> /\ \A c \in DOMAIN medians : medians[c].ok
             /\ \A c \in DOMAIN final_category_dmb :
                    QuantizeOK(prec, final_category_dmb[c]),
      final_category_dmb |-> final_category_dmb,
      historical_median_spends |-> [ c \in DOMAIN medians |-> medians[c].median ] ]

calculate_final_dmb_with_history(prec, thresholds) ==
    ReconciledResult(prec, historical_median_spends(prec),
        ReconciledBaselines(thresholds, historical_median_spends(prec)))

\* _calculate_tax_headroom_leak: the tax leak, and whether the quantize of
\* tax_headroom_remaining succeeds
calculate_tax_headroom_leak(prec, fixed_commitment_total, tax_committed, months_passed) ==
    LET ytd_committed_tax_spend ==
            IF tax_committed = 0
            THEN RoundSig(prec, fixed_commitment_total * months_passed)
            ELSE tax_committed
        tax_headroom == DSub(prec, ANNUAL_MAX_TAX_SAVING_LIMIT, ytd_committed_tax_spend)
        tax_leak == Max(0, tax_headroom)
    IN  [ ok |-> QuantizeOK(prec, tax_leak), tax_leak |-> tax_leak ]

\* _get_current_month_spends: the categories with DEBIT rows plus the two
\* Pure-Discretionary defaults
CurrentSpendCategories == { c \in SpendCategories : spends[c] > 0 } \cup PDCategories

\* the iteration order used for sum(current_spends.values())
SpendOrder ==
    << "Variable_Essential_Food", "Variable_Essential_Transport",
       "Variable_Essential_Health", "Scaled_Discretionary_Routine",
       "Groceries", "Pure_Discretionary_DiningOut", "Pure_Discretionary_Gadget" >>

RECURSIVE SumSpends(_, _)
SumSpends(prec, n) ==
    IF n = 0 THEN 0
    ELSE IF SpendOrder[n] \in CurrentSpendCategories
         THEN DAdd(prec, SumSpends(prec, n - 1), spends[SpendOrder[n]])
         ELSE SumSpends(prec, n - 1)

PDOrder == << "Pure_Discretionary_DiningOut", "Pure_Discretionary_Gadget" >>

\* leak of one scaled (Variable-Essential / Scaled-Discretionary) category
ScaledLeakUnclamped(prec, spend, dmb_threshold) == DSub(prec, spend, dmb_threshold)

ScaledLeak(prec, spend, dmb_threshold) == Max(0, DSub(prec, spend, dmb_threshold))

\* leak of one Pure-Discretionary category
PureDiscretionaryLeak(spend) == spend

\* variable_leakage accumulated over the first n scaled categories
RECURSIVE ScaledLeakage(_, _, _)
ScaledLeakage(prec, final_dmb, n) ==
    IF n = 0 THEN 0
    ELSE LET c == BaseNeedsOrder[n]
             leak == ScaledLeak(prec, spends[c], final_dmb[c])
             acc == ScaledLeakage(prec, final_dmb, n - 1)
         IN  IF spends[c] > 0 /\ leak > 0 THEN DAdd(prec, acc, leak) ELSE acc

\* ... and then over the first n Pure-Discretionary categories
RECURSIVE PDLeakage(_, _, _)
PDLeakage(prec, acc0, n) ==
    IF n = 0 THEN acc0
    ELSE LET c == PDOrder[n]
             acc == PDLeakage(prec, acc0, n - 1)
         IN  IF spends[c] > 0
             THEN DAdd(prec, acc, PureDiscretionaryLeak(spends[c])) ELSE acc

\* ------------------------------------------------------------------------
\* services/benchmarking_service.py
\* ------------------------------------------------------------------------
MIN_COHORT_SIZE == 5

DEFAULT_FALLBACK_FACTOR == 85

\* variable_income_pool * Decimal("0.40") in cents, the spend assumed for a
\* member without variable_spend_total
AssumedVariableSpend(prec, variable_income_pool) ==
    RoundSig(prec, variable_income_pool * 40) \div 100

\* a Decimal below 21 in units of 10^-8
RatioUnits(d) == d.c * Pow10(8 - d.s)

\* the efficiency ratio of one cohort member in units of 10^-8, or NoSpend
\* when the member has no variable income pool
MemberRatio(prec, profile) ==
    LET variable_income_pool ==
            DSub(prec, profile.net_monthly_income, profile.fixed_commitment_total)
        variable_spend ==
            IF profile.variable_spend_total = NoSpend
            THEN AssumedVariableSpend(prec, variable_income_pool)
            ELSE profile.variable_spend_total
    IN  IF variable_income_pool > 0
        THEN RatioUnits(DDiv(prec, variable_spend, variable_income_pool))
        ELSE NoSpend

\* efficiency_ratios, in the order of the cohort
RECURSIVE EfficiencyRatios(_, _)
EfficiencyRatios(prec, cohort_results) ==
    IF cohort_results = <<>> THEN <<>>
    ELSE LET ratio == MemberRatio(prec, Head(cohort_results))
             rest == EfficiencyRatios(prec, Tail(cohort_results))
         IN  IF ratio = NoSpend THEN rest ELSE <<ratio>> \o rest

\* sum(best_user_ratios), starting from the int 0
RECURSIVE SumRatios(_, _, _)
SumRatios(prec, ratios, n) ==
    IF n = 0 THEN 0 ELSE DAdd(prec, SumRatios(prec, ratios, n - 1), ratios[n])

\* the mean of the best_user_count lowest ratios, quantized to hundredths
\* with ROUND_HALF_UP
BenchmarkMean(prec, sorted_ratios, best_user_count) ==
    RoundHalfUp(RoundSig(prec, SumRatios(prec, sorted_ratios, best_user_count)
                               \div best_user_count),
                1000000)

BenchmarkFromRatios(prec, efficiency_ratios) ==
    IF efficiency_ratios = <<>> THEN DEFAULT_FALLBACK_FACTOR
    ELSE BenchmarkMean(prec, SortedTotals(efficiency_ratios),
                       Max(1, Len(efficiency_ratios) \div 5))

\* BenchmarkingService.calculate_benchmark_factor on the cohort the query
\* returns, in hundredths; _fetch_profile_data_and_baselines asks it for the
\* efficiency factor
calculate_benchmark_factor_always_mean(prec, cohort_results) == BenchmarkFromRatios(prec, EfficiencyRatios(prec, cohort_results))

calculate_benchmark_factor(prec, cohort_results) ==
    IF Len(cohort_results) < MIN_COHORT_SIZE THEN DEFAULT_FALLBACK_FACTOR
    ELSE BenchmarkFromRatios(prec, EfficiencyRatios(prec, cohort_results))

\* ------------------------------------------------------------------------
\* LeakageService.calculate_leakage
\* ------------------------------------------------------------------------
\* the buckets appended by calculate_leakage
LeakageBuckets(prec, final_dmb, tax_leak) ==
    { [ category |-> c, tier |-> "scaled",
        baseline_threshold |-> final_dmb[c], spend |-> spends[c],
        leak_amount |-> ScaledLeak(prec, spends[c], final_dmb[c]) ] :
      c \in { x \in ScaledCategories : spends[x] > 0 } }
    \cup
    { [ category |-> c, tier |-> "pure",
        baseline_threshold |-> 0, spend |-> spends[c],
        leak_amount |-> PureDiscretionaryLeak(spends[c]) ] :
      c \in { x \in PDCategories : spends[x] > 0 } }
    \cup
    { [ category |-> "Tax Optimization Headroom (Annual)", tier |-> "tax",
        baseline_threshold |-> ANNUAL_MAX_TAX_SAVING_LIMIT,
        spend |-> DSub(prec, ANNUAL_MAX_TAX_SAVING_LIMIT, t),
        leak_amount |-> t ] : t \in { x \in {tax_leak} : x > 0 } }

\* step 6, the guardrail
Guardrail(prec, total_leakage, net_income, fixed_commitments) ==
    LET absolute_floor == DAdd(prec, fixed_commitments, GLOBAL_MINIMAL_BASELINE_FLOOR)
        max_possible_leakage == Max(0, DSub(prec, net_income, absolute_floor))
    IN  Min(total_leakage, max_possible_leakage)

\* steps 4-6 of calculate_leakage and its return value, from the baseline,
\* the tax leak and the reconciled per-category baselines of steps 1-3:
\* what is computed, whether an exception is raised before or after the commit
LeakageTotals(prec, p, baseline, tax, dmb, variable_leakage, buckets, total_leakage) ==
    [ raised_before_commit |->
          ~ (/\ baseline.ok /\ tax.ok /\ dmb.ok
             /\ \A c \in CurrentSpendCategories : QuantizeOK(prec, spends[c])
             /\ \A b \in buckets :
                    /\ b.tier # "tax" => QuantizeOK(prec, b.baseline_threshold)
                    /\ b.tier # "tax" => QuantizeOK(prec, b.spend)
                    /\ QuantizeOK(prec, b.leak_amount)),
      raised_after_commit |->
          ~ (QuantizeOK(prec, total_leakage)
             /\ QuantizeOK(prec, Guardrail(prec, total_leakage, p.net_monthly_income,
                                           p.fixed_commitment_total))),
      final_dmb |-> dmb.final_category_dmb,
      thresholds |-> baseline.thresholds,
      medians |-> dmb.historical_median_spends,
      buckets |-> buckets,
      total_leakage |-> total_leakage,
      projected_reclaimable_salary |->
          Guardrail(prec, total_leakage, p.net_monthly_income,
                    p.fixed_commitment_total),
      variable_spend_total |-> SumSpends(prec, Len(SpendOrder)),
      tax_headroom_remaining |-> tax.tax_leak ]

\* steps 4-5 of calculate_leakage: the leak accumulated over the categories
LeakageVariable(prec, p, baseline, tax, dmb, variable_leakage) ==
    LeakageTotals(prec, p, baseline, tax, dmb, variable_leakage,
                  LeakageBuckets(prec, dmb.final_category_dmb, tax.tax_leak),
                  DAdd(prec, variable_leakage, tax.tax_leak))

\* step 3 of calculate_leakage: the baselines reconciled with the history
LeakageReconciled(prec, p, baseline, tax, dmb) ==
    LeakageVariable(prec, p, baseline, tax, dmb,
        PDLeakage(prec, ScaledLeakage(prec, dmb.final_category_dmb,
                                      Len(BaseNeedsOrder)),
                  Len(PDOrder)))

\* nothing is computed once _fetch_profile_data_and_baselines has raised
LeakageRaised ==
    [ raised_before_commit |-> TRUE, raised_after_commit |-> FALSE,
      final_dmb |-> PerCategory([cat \in ScaledCategories |-> 0]),
      thresholds |-> <<>>, medians |-> <<>>, buckets |-> {},
      total_leakage |-> 0, projected_reclaimable_salary |-> 0,
      variable_spend_total |-> 0, tax_headroom_remaining |-> 0 ]

\* steps 1-2 of calculate_leakage
LeakageBaseline(prec, p, baseline, tax) ==
    IF ~ baseline.ok THEN LeakageRaised
    ELSE LeakageReconciled(prec, p, baseline, tax,
             calculate_final_dmb_with_history(prec, baseline.thresholds))

\* calculate_leakage on the period profile p (the stored row, or the row
\* _fetch_profile_data_and_baselines has just created)
LeakageCalc(prec, p, benchmark_factor, tax_committed, months_passed) ==
    LeakageBaseline(prec, p,
        calculate_dynamic_baseline(prec, p.net_monthly_income,
            financial_profile.e_family_size, user.city_tier,
            user.income_slab, benchmark_factor),
        calculate_tax_headroom_leak(prec, p.fixed_commitment_total,
                                    tax_committed, months_passed))

\* what one calculate_leakage call leaves committed and returns, from the
\* computation r on the period profile p
EFS_NOT_FOUND ==
    "Financial Profile or Equivalent Family Size not found. Run OrchestrationService first to calculate EFS."

INVALID_OPERATION == "decimal.InvalidOperation"

LeakageResultAssumingEFS(p, r) == [ status |-> "ok", committed |-> TRUE, error |-> "", profile |-> [ p EXCEPT !.projected_reclaimable_salary = r.projected_reclaimable_salary, !.variable_spend_total = r.variable_spend_total, !.tax_headroom_remaining = r.tax_headroom_remaining ], projected |-> r.projected_reclaimable_salary, total_leakage |-> r.total_leakage, buckets |-> r.buckets, thresholds |-> r.thresholds, medians |-> r.medians, final_dmb |-> r.final_dmb ]

LeakageResult(p, r) ==
    IF ~ financial_profile.exists \/ financial_profile.e_family_size = 0
    THEN [ status |-> "error", committed |-> FALSE, error |-> EFS_NOT_FOUND,
           profile |-> salary_profile,
           projected |-> 0, total_leakage |-> 0, buckets |-> {},
           thresholds |-> <<>>, medians |-> <<>>, final_dmb |-> <<>> ]
    ELSE IF r.raised_before_commit
    THEN [ status |-> "error", committed |-> FALSE, error |-> INVALID_OPERATION,
           profile |-> salary_profile,
           projected |-> 0, total_leakage |-> 0, buckets |-> {},
           thresholds |-> <<>>, medians |-> <<>>, final_dmb |-> <<>> ]
    ELSE [ status |-> IF r.raised_after_commit THEN "error" ELSE "ok",
           committed |-> TRUE,
           error |-> IF r.raised_after_commit THEN INVALID_OPERATION ELSE "",
           profile |-> [ p EXCEPT
               !.projected_reclaimable_salary = r.projected_reclaimable_salary,
               !.variable_spend_total = r.variable_spend_total,
               !.tax_headroom_remaining = r.tax_headroom_remaining ],
           projected |-> IF r.raised_after_commit THEN 0
                         ELSE r.projected_reclaimable_salary,
           total_leakage |-> IF r.raised_after_commit THEN 0 ELSE r.total_leakage,
           buckets |-> IF r.raised_after_commit THEN {} ELSE r.buckets,
           thresholds |-> IF r.raised_after_commit THEN <<>> ELSE r.thresholds,
           medians |-> IF r.raised_after_commit THEN <<>> ELSE r.medians,
           final_dmb |-> IF r.raised_after_commit THEN <<>> ELSE r.final_dmb ]

\* the period profile calculate_leakage works on: the stored row, or a new
\* row with the user's salary
PeriodProfile ==
    IF salary_profile.exists THEN salary_profile
    ELSE NewSalaryProfile(user.monthly_salary, 0)

\* the outcome of one calculate_leakage call
LeakageOutcome(prec, cohort_results, tax_committed, months_passed) ==
    LeakageResult(PeriodProfile,
        LeakageCalc(prec, PeriodProfile,
                    calculate_benchmark_factor(prec, cohort_results),
                    tax_committed, months_passed))

CalculateLeakage ==
    \E prec \in Precisions, env \in Environments :
        \E o \in { LeakageOutcome(prec, env.cohort,
                                  env.tax_committed, env.months_passed) } :
            /\ salary_profile' = o.profile
            /\ last' = [ BlankLast EXCEPT !.op = "calculate_leakage",
                             !.status = o.status, !.committed = o.committed,
                             !.error = o.error, !.projected = o.projected,
                             !.total_leakage = o.total_leakage,
                             !.buckets = o.buckets,
                             !.thresholds = o.thresholds,
                             !.medians = o.medians,
                             !.final_dmb = o.final_dmb ]
            /\ leakage_computed' = (leakage_computed \/ o.committed)
            /\ CountInsert /\ UNCHANGED << smart_transfer_rule, sessions, user, financial_profile, rules, ledger, spends,
                            tx_count, history >>

\* ------------------------------------------------------------------------
\* Categorized transactions arriving from the ingestion pipeline
\* ------------------------------------------------------------------------
\* a categorized DEBIT transaction of the period is stored
IngestTransaction ==
    \E tx \in TxInputs :
        /\ tx_count < MaxTx
        /\ spends' = [ spends EXCEPT ![tx[1]] = @ + tx[2] ]
        /\ tx_count' = tx_count + 1
        /\ last' = [ BlankLast EXCEPT !.op = "transaction" ]
        /\ UNCHANGED << profile_rows, smart_transfer_rule, sessions, user, financial_profile, salary_profile, rules, ledger,
                        history,
                            leakage_computed >>

\* ------------------------------------------------------------------------
\* services/fixed_commitment_service.py
\* ------------------------------------------------------------------------
\* calculate_fixed_total for fixed-commitment transactions of one category
\* summing to total_spend over the look-back window
calculate_fixed_total(prec, total_spend) ==
    LET monthly_average == DRound(prec, [c |-> RoundSig(prec, total_spend) * 25, s |-> 4])
        projected_total == DRound(prec, monthly_average)
        cents == IF projected_total.s <= 2
                 THEN projected_total.c * Pow10(2 - projected_total.s)
                 ELSE RoundHalfUp(projected_total.c, Pow10(projected_total.s - 2))
    IN  IF total_spend = 0 THEN [ ok |-> TRUE, total |-> 0 ]
        ELSE [ ok |-> QuantizeOK(prec, cents), total |-> cents ]

\* FixedCommitmentService.orchestrate_update
OrchestrateUpdate ==
    \E prec \in Precisions, total_spend \in FixedTotals :
        LET f == calculate_fixed_total(prec, total_spend)
            p == IF salary_profile.exists THEN salary_profile
                 ELSE NewSalaryProfile(user.monthly_salary, 0)
        IN  /\ salary_profile' =
                  IF f.ok THEN [ p EXCEPT !.fixed_commitment_total = f.total ]
                  ELSE salary_profile
            /\ last' = [ BlankLast EXCEPT !.op = "orchestrate_update",
                             !.status = IF f.ok THEN "ok" ELSE "error",
                             !.committed = f.ok ]
            /\ CountInsert /\ UNCHANGED << smart_transfer_rule, sessions, user, financial_profile, rules, ledger, spends,
                            tx_count, history,
                            leakage_computed >>

\* ------------------------------------------------------------------------
\* services/orchestration_service.py
\* ------------------------------------------------------------------------
\* OrchestrationService.calculate_and_save_financial_profile
CalculateAndSaveFinancialProfile ==
    \E prec \in Precisions :
        LET new_efs_value == calculate_equivalent_family_size(prec, user.household)
            net_income == user.monthly_salary
            baseline_results == calculate_dynamic_baseline(prec, net_income,
                                    new_efs_value, user.city_tier, user.income_slab,
                                    NoFactor)
            leakage_threshold == baseline_results.Total_Leakage_Threshold
            factor == IF net_income > 0
                      THEN DQuant4(DDiv(prec, leakage_threshold, net_income))
                      ELSE 0
            ok == /\ QuantizeOK(prec, new_efs_value)
                  /\ baseline_results.ok
                  /\ QuantizeOK(prec, factor)
        IN  /\ financial_profile' =
                  IF ok THEN [ FetchOrCreateFinancialProfile EXCEPT
                                   !.e_family_size = new_efs_value,
                                   !.essential_target = leakage_threshold,
                                   !.baseline_adjustment_factor = factor ]
                  ELSE financial_profile
            /\ last' = [ BlankLast EXCEPT !.op = "calculate_and_save_financial_profile",
                             !.status = IF ok THEN "ok" ELSE "error",
                             !.committed = ok ]
            /\ UNCHANGED << profile_rows, smart_transfer_rule, sessions, user, salary_profile, rules, ledger, spends, tx_count,
                            history,
                            leakage_computed >>

\* ------------------------------------------------------------------------
\* services/financial_profile_service.py
\* ------------------------------------------------------------------------
\* the weight table of the service, in hundredths
ADULT_WEIGHT == 100

SECOND_ADULT_WEIGHT == 50

DEPENDENT_6_TO_17_WEIGHT == 30

DEPENDENT_UNDER_6_WEIGHT == 20

DEPENDENT_OVER_18_WEIGHT == 50

DEFAULT_ESSENTIAL_TARGET_PERCENT == 50

\* FinancialProfileService._calculate_equivalent_family_size, in hundredths
service_calculate_equivalent_family_size(prec, h) ==
    LET e1 == IF h.num_adults > 1
              THEN DAdd(prec, ADULT_WEIGHT,
                        RoundSig(prec, (h.num_adults - 1) * SECOND_ADULT_WEIGHT))
              ELSE ADULT_WEIGHT
        e2 == DAdd(prec, e1,
                   RoundSig(prec, h.num_dependents_under_6 * DEPENDENT_UNDER_6_WEIGHT))
        e3 == DAdd(prec, e2,
                   RoundSig(prec, h.num_dependents_6_to_17 * DEPENDENT_6_TO_17_WEIGHT))
    IN  DAdd(prec, e3,
             RoundSig(prec, h.num_dependents_over_18 * DEPENDENT_OVER_18_WEIGHT))

\* the value of d in cents after quantize(Decimal("0.01"), ROUND_HALF_UP)
DCentsHalfUp(d) ==
    IF d.s <= 2 THEN d.c * Pow10(2 - d.s) ELSE RoundHalfUp(d.c, Pow10(d.s - 2))

\* step 3 of calculate_and_save_dmb: the essential target in cents from the
\* salary, the fixed total and the benchmark factor
EssentialTarget(prec, monthly_salary, current_fixed_total, benchmark_factor) ==
    LET variable_income_pool == Max(0, DSub(prec, monthly_salary, current_fixed_total))
        base_dmb_target == DMul(prec, D2(variable_income_pool),
                                D2(DEFAULT_ESSENTIAL_TARGET_PERCENT))
    IN  DCentsHalfUp(DMul(prec, base_dmb_target, D2(benchmark_factor)))

\* what calculate_and_save_dmb commits. With a period profile the benchmark
\* factor is the coroutine object the un-awaited async
\* calculate_benchmark_factor returns: multiplying by it raises TypeError
\* before the commit. Without one the fallback factor is used.
DmbOutcome(prec, profile, new_efs, has_salary_profile) ==
    IF ~ QuantizeOK(prec, new_efs) \/ has_salary_profile
    THEN [ ok |-> FALSE, profile |-> financial_profile ]
    ELSE LET target == EssentialTarget(prec, user.monthly_salary, 0,
                                       DEFAULT_FALLBACK_FACTOR)
         IN  IF ~ QuantizeOK(prec, target)
             THEN [ ok |-> FALSE, profile |-> financial_profile ]
             ELSE [ ok |-> TRUE,
                    profile |-> [ profile EXCEPT
                        !.e_family_size = new_efs,
                        !.benchmark_efficiency_factor = DEFAULT_FALLBACK_FACTOR,
                        !.essential_target = target ] ]

\* FinancialProfileService.calculate_and_save_dmb
CalculateAndSaveDmb ==
    \E prec \in Precisions :
        \E o \in { DmbOutcome(prec, FetchOrCreateFinancialProfile,
                       service_calculate_equivalent_family_size(prec, user.household),
                       salary_profile.exists) } :
            /\ financial_profile' = o.profile
            /\ last' = [ BlankLast EXCEPT !.op = "calculate_and_save_dmb",
                             !.status = IF o.ok THEN "ok" ELSE "error",
                             !.committed = o.ok ]
            /\ UNCHANGED << profile_rows, smart_transfer_rule, sessions, user, salary_profile, rules, ledger, spends, tx_count,
                            history, leakage_computed >>

\* BenchmarkingService.calculate_benchmark_factor, awaited on the cohort its
\* query returns
CalculateBenchmarkFactor ==
    \E prec \in Precisions, cohort_results \in Cohorts :
        /\ last' = [ BlankLast EXCEPT !.op = "calculate_benchmark_factor",
                         !.cohort_results = cohort_results,
                         !.benchmark_factor =
                             calculate_benchmark_factor(prec, cohort_results) ]
        /\ UNCHANGED << profile_rows, smart_transfer_rule, sessions, user, financial_profile, salary_profile, rules, ledger,
                        spends, tx_count, history, leakage_computed >>

EFS_TOLERANCE == 10

FIXED_EXPENSE_TOLERANCE == 5

\* self.user_id of the requesting user
CURRENT_USER_ID == 1

\* a salary_allocation_profile row joined with its users and
\* financial_profiles rows
PeerRow(user_id, reporting_period, fixed_commitment_total, variable_spend_total) ==
    [ user_id |-> user_id, reporting_period |-> reporting_period,
      net_monthly_income |-> 6000000,
      fixed_commitment_total |-> fixed_commitment_total,
      variable_spend_total |-> variable_spend_total,
      city_tier |-> "Tier 3", e_family_size |-> 180 ]

\* the period profiles of the database: of the requesting user, of one
\* other user over five months, of five other users, of two other users
ProfileTables ==
    { << PeerRow(1, 1, 2000000, 2000000), PeerRow(2, 1, 2000000, 2400000),
         PeerRow(2, 2, 2000000, 2800000), PeerRow(2, 3, 2000000, 3200000),
         PeerRow(2, 4, 2000000, 3600000), PeerRow(2, 5, 2000000, 3000000) >>,
      << PeerRow(1, 1, 0, 2000000), PeerRow(2, 1, 0, 2400000),
         PeerRow(3, 1, 0, 3000000), PeerRow(4, 1, 2000000, 3600000),
         PeerRow(5, 1, 0, 4200000), PeerRow(6, 1, 0, 3600000),
         PeerRow(7, 1, 0, 4800000) >>,
      << PeerRow(1, 1, 2000000, 2000000), PeerRow(2, 1, 2000000, 2400000),
         PeerRow(3, 1, 6000000, 0) >> }

\* the where clause of cohort_stmt
InCohort(prec, row, user_id, current_efs, current_fixed_total, city_tier) ==
    /\ row.user_id # user_id
    /\ row.net_monthly_income > row.fixed_commitment_total
    /\ row.city_tier = city_tier
    /\ row.e_family_size * 100 >= RoundSig(prec, current_efs * (100 - EFS_TOLERANCE))
    /\ row.e_family_size * 100 <= RoundSig(prec, current_efs * (100 + EFS_TOLERANCE))
    /\ row.fixed_commitment_total * 100
         >= RoundSig(prec, current_fixed_total * (100 - FIXED_EXPENSE_TOLERANCE))
    /\ row.fixed_commitment_total * 100
         <= RoundSig(prec, current_fixed_total * (100 + FIXED_EXPENSE_TOLERANCE))

\* cohort_result.scalars().all()
CohortQuery(prec, table, user_id, current_efs, current_fixed_total, city_tier) ==
    SelectSeq(table, LAMBDA row :
        InCohort(prec, row, user_id, current_efs, current_fixed_total, city_tier))

\* BenchmarkingService.calculate_benchmark_factor with the arguments
\* calculate_and_save_dmb passes, awaited on the period profiles of the
\* database
BenchmarkAgainstDatabase ==
    \E prec \in Precisions, table \in ProfileTables :
        \E cohort_results \in { CohortQuery(prec, table, CURRENT_USER_ID,
                service_calculate_equivalent_family_size(prec, user.household),
                salary_profile.fixed_commitment_total, user.city_tier) } :
            /\ salary_profile.exists
            /\ last' = [ BlankLast EXCEPT !.op = "calculate_benchmark_factor",
                             !.cohort_results = cohort_results,
                             !.benchmark_factor =
                                 calculate_benchmark_factor(prec, cohort_results) ]
            /\ UNCHANGED << profile_rows, smart_transfer_rule, sessions, user, financial_profile, salary_profile,
                            rules, ledger, spends, tx_count, history,
                            leakage_computed >>

AUTOPILOT_THRESHOLD == 20000

CONVERSION_NOISE_THRESHOLD == 5000

\* _fetch_available_reclaimable_salary: the stored row, or a transient
\* default SalaryAllocationProfile(projected_reclaimable_salary=0.00) that
\* is not attached to the session
fetch_available_reclaimable_salary(p) ==
    IF p.exists THEN p ELSE NoProfile

\* the rows the top_rule query could return without its ORDER BY
TopRulesOfAnyPriority(rs) == { id \in RuleIds : rs[id].is_active /\ rs[id].amount_allocated_mtd < rs[id].target_amount_monthly }

\* the rows the top_rule query can return: active, not fully funded,
\* of the highest priority
TopRules(rs) ==
    LET open == { id \in RuleIds : /\ rs[id].is_active
                                   /\ rs[id].amount_allocated_mtd
                                        < rs[id].target_amount_monthly }
    IN  { id \in open : \A other \in open : rs[id].priority >= rs[other].priority }

LedgerEntry(amount, rule_id, category) ==
    [ amount |-> amount, smart_rule_id |-> rule_id, category |-> category,
      transaction_type |-> "DEBIT_INTERNAL" ]

\* convert_leak_to_goal_if_possible on period profile p, rules rs and ledger lg
\* where the query returns top_rule (0: no row): what is committed
ConvertOutcome(prec, p, rs, lg, projected_reclaimable, top_rule) ==
    LET sp == fetch_available_reclaimable_salary(p)
        available_for_conversion ==
            DSub(prec, projected_reclaimable, sp.total_autotransferred)
        monthly_gap == DSub(prec, rs[top_rule].target_amount_monthly,
                                  rs[top_rule].amount_allocated_mtd)
        conversion_amount == Min(available_for_conversion, monthly_gap)
        unchanged == [ converted |-> FALSE, profile |-> p, rules |-> rs, ledger |-> lg ]
    IN  IF projected_reclaimable < AUTOPILOT_THRESHOLD THEN unchanged
        ELSE IF available_for_conversion <= CONVERSION_NOISE_THRESHOLD THEN unchanged
        ELSE IF top_rule = 0 THEN unchanged
        ELSE IF conversion_amount <= 0 THEN unchanged
        ELSE [ converted |-> TRUE,
               profile |-> IF p.exists
                           THEN [ p EXCEPT !.total_autotransferred =
                                      DAdd(prec, sp.total_autotransferred,
                                           conversion_amount) ]
                           ELSE p,
               rules |-> [ rs EXCEPT ![top_rule].amount_allocated_mtd =
                                      DAdd(prec, @, conversion_amount) ],
               ledger |-> Append(lg, LedgerEntry(conversion_amount, top_rule,
                                                 "Autopilot Stash")) ]

\* the rule the query of convert_leak_to_goal_if_possible may return
TopRuleChoices(rs) == IF TopRules(rs) = {} THEN {0} ELSE TopRules(rs)

\* OrchestrationService.recalculate_current_period_leakage
RecalculateCurrentPeriodLeakage ==
    \E prec \in Precisions, env \in Environments, top_rule \in TopRuleChoices(rules) :
        \E lk \in { LeakageOutcome(prec, env.cohort,
                                   env.tax_committed, env.months_passed) } :
        \E o \in { IF lk.status = "ok"
                   THEN ConvertOutcome(prec, lk.profile, rules, ledger,
                                       lk.projected, top_rule)
                   ELSE [ converted |-> FALSE, profile |-> lk.profile,
                          rules |-> rules, ledger |-> ledger ] } :
            /\ o.converted => Len(ledger) < MaxLedger
            /\ salary_profile' = o.profile
            /\ rules' = o.rules
            /\ ledger' = o.ledger
            /\ last' = [ BlankLast EXCEPT !.op = "recalculate_current_period_leakage",
                             !.status = lk.status,
                             !.committed = lk.committed \/ o.converted,
                             !.error = lk.error, !.projected = lk.projected,
                             !.total_leakage = lk.total_leakage,
                             !.buckets = lk.buckets,
                             !.thresholds = lk.thresholds,
                             !.medians = lk.medians,
                             !.final_dmb = lk.final_dmb ]
            /\ leakage_computed' = (leakage_computed \/ lk.committed)
            /\ CountInsert /\ UNCHANGED << smart_transfer_rule, sessions, user, financial_profile, spends, tx_count, history >>

NOISE_THRESHOLD == 50000

\* the mapped attributes of the User model the services import (db/base.py)
UserColumns ==
    { "id", "username", "hashed_password", "is_active", "created_at",
      "monthly_salary", "num_adults", "num_dependents_under_6",
      "num_dependents_6_to_17", "num_dependents_over_18", "city_tier",
      "income_slab", "financial_profile", "salary_profiles" }

\* user.tax_headroom_remaining raises AttributeError unless User maps it
UserHasTaxHeadroom == "tax_headroom_remaining" \in UserColumns

\* active rules ordered by priority, highest first
RECURSIVE ByPriorityDesc(_, _)
ByPriorityDesc(rs, ids) ==
    IF ids = {} THEN <<>>
    ELSE LET top == CHOOSE id \in ids :
                        \A other \in ids : rs[id].priority >= rs[other].priority
         IN  <<top>> \o ByPriorityDesc(rs, ids \ {top})

ActiveRules(rs) == ByPriorityDesc(rs, { id \in RuleIds : rs[id].is_active })

\* one pass of an allocation loop over the rules order[1..n]; tax says
\* whether the remaining tax headroom caps the transfer
AllocationTransfer(rule, tax, prev) ==
    IF tax
    THEN Min(Min(rule.target_amount_monthly, prev.remaining_fund),
             prev.remaining_tax_headroom)
    ELSE Min(rule.target_amount_monthly, prev.remaining_fund)

AllocationStep(prec, rule_id, tax, prev, transfer) ==
    IF prev.remaining_fund <= 0 \/ transfer <= 0 THEN prev
    ELSE [ ok |-> prev.ok /\ QuantizeOK(prec, transfer),
           suggestion_plan |-> Append(prev.suggestion_plan,
               [ rule_id |-> rule_id, transfer_amount |-> transfer ]),
           remaining_fund |-> DSub(prec, prev.remaining_fund, transfer),
           remaining_tax_headroom |->
               IF tax THEN DSub(prec, prev.remaining_tax_headroom, transfer)
               ELSE prev.remaining_tax_headroom,
           total_suggested |-> DAdd(prec, prev.total_suggested, transfer) ]

AllocationIter(prec, rule_id, rule, tax, prev) ==
    AllocationStep(prec, rule_id, tax, prev, AllocationTransfer(rule, tax, prev))

RECURSIVE AllocationLoop(_, _, _, _, _, _)
AllocationLoop(prec, rs, order, n, tax, st) ==
    IF n = 0 THEN st
    ELSE AllocationIter(prec, order[n], rs[order[n]], tax,
                        AllocationLoop(prec, rs, order, n - 1, tax, st))

\* steps 1-4 of generate_consent_suggestion_plan: tax-saving rules first,
\* then the other rules
WaterfallInitial(available_fund, tax_headroom) ==
    [ ok |-> TRUE, suggestion_plan |-> <<>>,
      remaining_fund |-> available_fund,
      remaining_tax_headroom |-> tax_headroom,
      total_suggested |-> 0 ]

WaterfallFinal(prec, available_fund, st) ==
    [ st EXCEPT !.ok = /\ st.ok
                       /\ QuantizeOK(prec, available_fund)
                       /\ QuantizeOK(prec, st.remaining_fund)
                       /\ QuantizeOK(prec, st.total_suggested) ]

WaterfallRules(prec, rs, available_fund, tax_headroom, tax_rules, other_rules) ==
    WaterfallFinal(prec, available_fund,
        AllocationLoop(prec, rs, other_rules, Len(other_rules), FALSE,
            AllocationLoop(prec, rs, tax_rules, Len(tax_rules), TRUE,
                           WaterfallInitial(available_fund, tax_headroom))))

WaterfallPlan(prec, rs, available_fund, tax_headroom) ==
    WaterfallRules(prec, rs, available_fund, tax_headroom,
        SelectSeq(ActiveRules(rs), LAMBDA id : rs[id].rule_type = TAX_SAVING),
        SelectSeq(ActiveRules(rs), LAMBDA id : rs[id].rule_type # TAX_SAVING))

\* the result of generate_consent_suggestion_plan on period profile p
SuggestionFailed(available_fund) ==
    [ status |-> "error", standby |-> FALSE,
      available_fund |-> available_fund, total_suggested |-> 0,
      has_remaining |-> FALSE, remaining_unallocated |-> 0,
      suggestion_plan |-> <<>> ]

SuggestionPlanned(available_fund, w) ==
    IF ~ w.ok THEN SuggestionFailed(available_fund)
    ELSE [ status |-> "ok", standby |-> FALSE,
           available_fund |-> available_fund,
           total_suggested |-> w.total_suggested,
           has_remaining |-> TRUE,
           remaining_unallocated |-> w.remaining_fund,
           suggestion_plan |-> w.suggestion_plan ]

SuggestionFrom(prec, rs, available_fund) ==
    IF available_fund <= NOISE_THRESHOLD
    THEN IF QuantizeOK(prec, available_fund)
         THEN [ SuggestionFailed(available_fund) EXCEPT
                    !.status = "ok", !.standby = TRUE ]
         ELSE SuggestionFailed(available_fund)
    ELSE IF ~ UserHasTaxHeadroom THEN SuggestionFailed(available_fund)
    ELSE SuggestionPlanned(available_fund,
             WaterfallPlan(prec, rs, available_fund, user.tax_headroom_remaining))

SuggestionOutcome(prec, p, rs) ==
    SuggestionFrom(prec, rs,
        DSub(prec, fetch_available_reclaimable_salary(p).projected_reclaimable_salary,
                   fetch_available_reclaimable_salary(p).total_autotransferred))

\* OrchestrationService.generate_consent_suggestion_plan
GenerateConsentSuggestionPlanSavingDefault ==
    \E prec \in Precisions :
        \E o \in { SuggestionOutcome(prec, salary_profile, rules) } :
            /\ last' = [ BlankLast EXCEPT !.op = "generate_consent_suggestion_plan",
                             !.status = o.status,
                             !.standby = o.standby,
                             !.available_fund = o.available_fund,
                             !.total_suggested = o.total_suggested,
                             !.has_remaining = o.has_remaining,
                             !.remaining_unallocated = o.remaining_unallocated,
                             !.suggestion_plan = o.suggestion_plan ]
            /\ salary_profile' = [ salary_profile EXCEPT !.exists = TRUE ]
            /\ UNCHANGED << profile_rows, smart_transfer_rule, sessions, user, financial_profile,
                            rules, ledger, spends, tx_count, history,
                            leakage_computed >>

GenerateConsentSuggestionPlan ==
    \E prec \in Precisions :
        \E o \in { SuggestionOutcome(prec, salary_profile, rules) } :
            /\ last' = [ BlankLast EXCEPT !.op = "generate_consent_suggestion_plan",
                             !.status = o.status,
                             !.standby = o.standby,
                             !.available_fund = o.available_fund,
                             !.total_suggested = o.total_suggested,
                             !.has_remaining = o.has_remaining,
                             !.remaining_unallocated = o.remaining_unallocated,
                             !.suggestion_plan = o.suggestion_plan ]
            /\ UNCHANGED << profile_rows, smart_transfer_rule, sessions, user, financial_profile, salary_profile, rules, ledger,
                            spends, tx_count, history,
                            leakage_computed >>

\* one line item of a consent payload; kind "str" is an amount that arrives
\* as float or str and is converted by Decimal(str(x)).quantize
Item(rule_id, transfer_amount, kind) ==
    [ rule_id |-> rule_id, transfer_amount |-> transfer_amount, kind |-> kind ]

\* consent payloads of the model
ConsentPlans ==
    { <<>>,
      << Item(3, 0, "decimal"), Item(3, 123456, "decimal") >>,
      << Item(1, 5000, "decimal"), Item(1, 60000, "str") >> }

\* the loop of record_consent_and_update_balance over items[1..n]
ConsentItem(prec, item, prev) ==
    IF prev.raised THEN prev
    ELSE IF item.kind = "str" /\ ~ QuantizeOK(prec, item.transfer_amount)
    THEN [ prev EXCEPT !.raised = TRUE ]
    ELSE IF item.transfer_amount <= 0 THEN prev
    ELSE [ raised |-> FALSE,
           total_transferred |->
               DAdd(prec, prev.total_transferred, item.transfer_amount),
           added |-> Append(prev.added,
               LedgerEntry(item.transfer_amount, item.rule_id, "Autopilot Stash")) ]

RECURSIVE ConsentLoop(_, _, _)
ConsentLoop(prec, items, n) ==
    IF n = 0 THEN [ raised |-> FALSE, total_transferred |-> 0, added |-> <<>> ]
    ELSE ConsentItem(prec, items[n], ConsentLoop(prec, items, n - 1))

\* step 3 of record_consent_and_update_balance
ConsentUpdate(prec, p, total_transferred) ==
    [ p EXCEPT !.projected_reclaimable_salary = DSub(prec, @, total_transferred),
               !.total_autotransferred = DAdd(prec, @, total_transferred) ]

\* the outcome of record_consent_and_update_balance
ConsentCommitRewritingLedger(prec, p, lg, transfer_plan, loop) == IF transfer_plan = <<>> \/ ~ p.exists \/ loop.raised THEN [ status |-> "ok", committed |-> FALSE, profile |-> p, ledger |-> lg, total_transferred |-> 0 ] ELSE [ status |-> "ok", committed |-> TRUE, profile |-> ConsentUpdate(prec, p, loop.total_transferred), ledger |-> loop.added, total_transferred |-> loop.total_transferred ]

ConsentCommit(prec, p, lg, transfer_plan, loop) ==
    IF transfer_plan = <<>>
    THEN [ status |-> "ok", committed |-> FALSE, profile |-> p,
           ledger |-> lg, total_transferred |-> 0 ]
    ELSE IF ~ p.exists \/ loop.raised
    THEN [ status |-> "error", committed |-> FALSE, profile |-> p,
           ledger |-> lg, total_transferred |-> 0 ]
    ELSE [ status |-> IF QuantizeOK(prec, loop.total_transferred)
                      THEN "ok" ELSE "error",
           committed |-> TRUE,
           profile |-> ConsentUpdate(prec, p, loop.total_transferred),
           ledger |-> lg \o loop.added,
           total_transferred |-> loop.total_transferred ]

ConsentOutcome(prec, p, lg, transfer_plan) ==
    ConsentCommit(prec, p, lg, transfer_plan,
                  ConsentLoop(prec, transfer_plan, Len(transfer_plan)))

\* OrchestrationService.record_consent_and_update_balance
RecordConsentAndUpdateBalance ==
    \E prec \in Precisions, transfer_plan \in ConsentPlans :
        \E o \in { ConsentOutcome(prec, salary_profile, ledger, transfer_plan) } :
            /\ Len(o.ledger) <= MaxLedger
            /\ salary_profile' = o.profile
            /\ ledger' = o.ledger
            /\ last' = [ BlankLast EXCEPT !.op = "record_consent_and_update_balance",
                             !.status = o.status, !.committed = o.committed, !.plan = transfer_plan,
                             !.total_transferred = o.total_transferred ]
            /\ UNCHANGED << profile_rows, smart_transfer_rule, sessions, user, financial_profile, rules, spends, tx_count,
                            history,
                            leakage_computed >>

\* ------------------------------------------------------------------------
\* Specification
\* ------------------------------------------------------------------------
Next ==
    \/ IngestTransaction
    \/ OrchestrateUpdate
    \/ CalculateAndSaveFinancialProfile
    \/ CalculateLeakage
    \/ RecalculateCurrentPeriodLeakage
    \/ GenerateConsentSuggestionPlan
    \/ RecordConsentAndUpdateBalance

Spec == Init /\ [][Next]_vars

\* the baseline and leakage pipeline alone: ingestion, the two profile
\* services and calculate_leakage
NextLeakage ==
    \/ IngestTransaction
    \/ OrchestrateUpdate
    \/ CalculateAndSaveFinancialProfile
    \/ CalculateAndSaveDmb
    \/ CalculateLeakage

SpecLeakage == Init /\ [][NextLeakage]_vars

\* the profile pipeline alone, over the households of HouseholdInputs: the
\* two services that persist the financial profile, the benchmark of the
\* peer cohort and the service that creates the period profile
InitProfile ==
    /\ user \in { [ monthly_salary |-> sal, city_tier |-> "Tier 3",
                    income_slab |-> "Medium", household |-> h ] :
                  sal \in Salaries, h \in HouseholdInputs }
    /\ financial_profile = NoFinancialProfile
    /\ salary_profile = NoProfile
    /\ rules = InitialRules
    /\ ledger = <<>>
    /\ spends = [ c \in SpendCategories |-> 0 ]
    /\ tx_count = 0
    /\ history = [ c \in ScaledCategories |-> <<>> ]
    /\ leakage_computed = FALSE
    /\ last = BlankLast
    /\ sessions = [ s \in SessionIds |-> IdleSession ]
    /\ smart_transfer_rule = NoSmartRules
    /\ profile_rows = 0

NextProfile ==
    \/ CalculateAndSaveFinancialProfile
    \/ CalculateAndSaveDmb
    \/ CalculateBenchmarkFactor
    \/ OrchestrateUpdate

SpecProfile == InitProfile /\ [][NextProfile]_vars

\* a salary that the fixed commitments of FixedTotals use up entirely
SalariesBelowCommitments == {1500000}

\* the baseline pipeline for users whose salary is above or below their
\* fixed commitments
InitBaseline ==
    /\ user \in { [ monthly_salary |-> sal, city_tier |-> "Tier 3",
                    income_slab |-> "Medium", household |-> h ] :
                  sal \in Salaries \cup SalariesBelowCommitments,
                  h \in Households }
    /\ financial_profile = NoFinancialProfile
    /\ salary_profile = NoProfile
    /\ rules = InitialRules
    /\ ledger = <<>>
    /\ spends = [ c \in SpendCategories |-> 0 ]
    /\ tx_count = 0
    /\ history = [ c \in ScaledCategories |-> <<>> ]
    /\ leakage_computed = FALSE
    /\ last = BlankLast
    /\ sessions = [ s \in SessionIds |-> IdleSession ]
    /\ smart_transfer_rule = NoSmartRules
    /\ profile_rows = 0

NextBaseline ==
    \/ OrchestrateUpdate
    \/ IngestTransaction
    \/ CalculateAndSaveFinancialProfile
    \/ CalculateAndSaveDmb
    \/ CalculateLeakage

SpecBaseline == InitBaseline /\ [][NextBaseline]_vars

\* the benchmark of the requesting user against the period profiles of the
\* database, once the services have created the user's own period profile
NextCohort ==
    \/ OrchestrateUpdate
    \/ IngestTransaction
    \/ CalculateLeakage
    \/ CalculateAndSaveFinancialProfile
    \/ BenchmarkAgainstDatabase

SpecCohort == Init /\ [][NextCohort]_vars

\* ------------------------------------------------------------------------
\* api/v1/smart_rule.py
\* ------------------------------------------------------------------------
\* number of rules the user creates
MaxRules == 3

\* rule_name values of the requests
RuleNames == { "Emergency Fund", "Tax Saver" }

\* a row of the user with the rule_id of the path
RuleRows(rule_id) ==
    { r \in smart_transfer_rule.rows : r.rule_id = rule_id }

\* create_smart_rule: the unique constraint on (user_id, rule_name) rejects
\* a second rule of the same name
CreateSmartRule ==
    \E rule_name \in RuleNames, is_active \in BOOLEAN :
        LET taken == \E r \in smart_transfer_rule.rows : r.rule_name = rule_name
        IN  /\ smart_transfer_rule.next_rule_id <= MaxRules
            /\ smart_transfer_rule' =
                  IF taken
                  THEN [ smart_transfer_rule EXCEPT !.next_rule_id = @ + 1 ]
                  ELSE [ rows |-> smart_transfer_rule.rows \cup
                                    { [ rule_id |-> smart_transfer_rule.next_rule_id,
                                        rule_name |-> rule_name,
                                        is_active |-> is_active ] },
                         next_rule_id |-> smart_transfer_rule.next_rule_id + 1 ]
            /\ last' = [ BlankLast EXCEPT !.op = "create_smart_rule",
                             !.status = IF taken THEN "error" ELSE "ok",
                             !.committed = ~ taken ]
            /\ UNCHANGED << profile_rows, user, financial_profile, salary_profile, rules,
                            ledger, spends, tx_count, history, leakage_computed,
                            sessions >>

\* update_smart_rule with is_active in the request body
UpdateSmartRule ==
    \E rule_id \in 1..MaxRules, is_active \in BOOLEAN :
        /\ smart_transfer_rule' =
              [ smart_transfer_rule EXCEPT !.rows =
                  { IF r.rule_id = rule_id THEN [ r EXCEPT !.is_active = is_active ]
                    ELSE r : r \in @ } ]
        /\ last' = [ BlankLast EXCEPT !.op = "update_smart_rule",
                         !.status = IF RuleRows(rule_id) = {} THEN "error" ELSE "ok",
                         !.committed = RuleRows(rule_id) # {} ]
        /\ UNCHANGED << profile_rows, user, financial_profile, salary_profile, rules, ledger,
                        spends, tx_count, history, leakage_computed, sessions >>

\* delete_smart_rule
DeleteSmartRule ==
    \E rule_id \in 1..MaxRules :
        /\ smart_transfer_rule' =
              [ smart_transfer_rule EXCEPT !.rows = @ \ RuleRows(rule_id) ]
        /\ last' = [ BlankLast EXCEPT !.op = "delete_smart_rule",
                         !.committed = RuleRows(rule_id) # {} ]
        /\ UNCHANGED << profile_rows, user, financial_profile, salary_profile, rules, ledger,
                        spends, tx_count, history, leakage_computed, sessions >>

NextRules ==
    \/ CreateSmartRule
    \/ UpdateSmartRule
    \/ DeleteSmartRule

SpecRules == Init /\ [][NextRules]_vars

\* the consent loop: a fund is computed, a plan is suggested and a consent
\* is committed
NextSuggestion ==
    \/ CalculateAndSaveFinancialProfile
    \/ IngestTransaction
    \/ CalculateLeakage
    \/ GenerateConsentSuggestionPlan
    \/ RecordConsentAndUpdateBalance

SpecSuggestion == Init /\ [][NextSuggestion]_vars

\* the operations that write the ledger of Autopilot transfers, and the ones
\* that give them a fund to transfer
NextLedger ==
    \/ CalculateAndSaveFinancialProfile
    \/ IngestTransaction
    \/ RecalculateCurrentPeriodLeakage
    \/ RecordConsentAndUpdateBalance

SpecLedger == Init /\ [][NextLedger]_vars

\* the rules of a user whose first rule has the monthly target 4101.00 and
\* has been funded with 101.50 by an earlier conversion
PartlyFundedRules ==
    [ InitialRules EXCEPT ![1].target_amount_monthly = 410100,
                          ![1].amount_allocated_mtd = 10150 ]

InitFunded ==
    /\ user \in { [ monthly_salary |-> sal, city_tier |-> "Tier 3",
                    income_slab |-> "Medium", household |-> h ] :
                  sal \in Salaries, h \in Households }
    /\ financial_profile = NoFinancialProfile
    /\ salary_profile = NoProfile
    /\ rules \in { InitialRules, PartlyFundedRules }
    /\ ledger = <<>>
    /\ spends = [ c \in SpendCategories |-> 0 ]
    /\ tx_count = 0
    /\ history \in { [ c \in ScaledCategories |->
                         IF c = "Variable_Essential_Food" THEN hs ELSE <<>> ] :
                     hs \in HistoryChoices }
    /\ leakage_computed = FALSE
    /\ last = BlankLast
    /\ sessions = [ s \in SessionIds |-> IdleSession ]
    /\ smart_transfer_rule = NoSmartRules
    /\ profile_rows = 0

SpecFunded == InitFunded /\ [][NextLedger]_vars

\* ------------------------------------------------------------------------
\* Requests in flight together. Every request has its own database session
\* (api/database_setup.py): it loads the period row, works on its copy, and
\* its commit sends an UPDATE of the columns it has changed and the INSERTs
\* of the rows it has added. No query locks the row it reads.
\* ------------------------------------------------------------------------
\* the columns of the period row that record_consent_and_update_balance and
\* calculate_leakage assign
WrittenColumns ==
    { "projected_reclaimable_salary", "variable_spend_total",
      "tax_headroom_remaining", "total_autotransferred" }

\* the stored row after the UPDATE of a session that loaded the row as
\* loaded and changed its copy to profile: the changed columns are set to
\* the session's values, the others keep what is stored
FlushUpdate(stored, loaded, profile) ==
    [ col \in DOMAIN stored |->
        IF col \in WrittenColumns /\ profile[col] # loaded[col]
        THEN profile[col] ELSE stored[col] ]

\* the state of a request that has returned
Returned(op, committed) ==
    [ IdleSession EXCEPT !.pc = "done", !.op = op, !.committed = committed ]

\* record_consent_and_update_balance up to its commit: the row is loaded,
\* the items are added to the session and the copy of the row is updated
ConsentBegin(s) ==
    \E prec \in Precisions, transfer_plan \in ConsentPlans \ { <<>> } :
        \E loop \in { ConsentLoop(prec, transfer_plan, Len(transfer_plan)) } :
            /\ sessions[s].pc = "idle"
            /\ salary_profile.exists
            /\ sessions' = [ sessions EXCEPT ![s] =
                   IF loop.raised
                   THEN Returned("record_consent_and_update_balance", FALSE)
                   ELSE [ pc |-> "loaded",
                          op |-> "record_consent_and_update_balance",
                          committed |-> FALSE,
                          loaded |-> salary_profile,
                          profile |-> ConsentUpdate(prec, salary_profile,
                                                    loop.total_transferred),
                          added |-> loop.added,
                          total_transferred |-> loop.total_transferred ] ]
            /\ UNCHANGED << profile_rows, smart_transfer_rule, user, financial_profile, salary_profile, rules,
                            ledger, spends, tx_count, history,
                            leakage_computed, last >>

\* calculate_leakage up to its commit: the row, the baselines and the
\* spends are read and the copy of the row gets the result
LeakageBegin(s) ==
    \E prec \in Precisions, env \in Environments :
        \E o \in { LeakageOutcome(prec, env.cohort,
                                  env.tax_committed, env.months_passed) } :
            /\ sessions[s].pc = "idle"
            /\ salary_profile.exists
            /\ sessions' = [ sessions EXCEPT ![s] =
                   IF ~ o.committed
                   THEN Returned("calculate_leakage", FALSE)
                   ELSE [ pc |-> "loaded",
                          op |-> "calculate_leakage",
                          committed |-> FALSE,
                          loaded |-> salary_profile,
                          profile |-> o.profile,
                          added |-> <<>>,
                          total_transferred |-> 0 ] ]
            /\ UNCHANGED << profile_rows, smart_transfer_rule, user, financial_profile, salary_profile, rules,
                            ledger, spends, tx_count, history,
                            leakage_computed, last >>

\* self.db.commit() of a request in flight
SessionCommit(s) ==
    /\ sessions[s].pc = "loaded"
    /\ salary_profile' = FlushUpdate(salary_profile, sessions[s].loaded,
                                     sessions[s].profile)
    /\ ledger' = ledger \o sessions[s].added
    /\ leakage_computed' =
           (leakage_computed \/ sessions[s].op = "calculate_leakage")
    /\ sessions' = [ sessions EXCEPT ![s].pc = "done", ![s].committed = TRUE ]
    /\ UNCHANGED << profile_rows, smart_transfer_rule, user, financial_profile, rules, spends, tx_count, history,
                    last >>

\* two requests of the consent and leakage endpoints in flight together,
\* after the pipeline has set up the profiles of the period
NextConcurrent ==
    \/ CalculateAndSaveFinancialProfile
    \/ OrchestrateUpdate
    \/ IngestTransaction
    \/ \E s \in SessionIds : ConsentBegin(s)
    \/ \E s \in SessionIds : LeakageBegin(s)
    \/ \E s \in SessionIds : SessionCommit(s)

SpecConcurrent == Init /\ [][NextConcurrent]_vars

\* ------------------------------------------------------------------------
\* Creation of the period profile: api/v1/salary.py and the services that
\* fetch the row or create it
\* ------------------------------------------------------------------------
\* request bodies of create_salary_allocation_profile
SalaryPayloads ==
    { [ net_monthly_income |-> 6000000, fixed_commitment_total |-> 2000000,
        target_savings_rate |-> 20 ],
      [ net_monthly_income |-> 6000000, fixed_commitment_total |-> 5000000,
        target_savings_rate |-> 20 ] }

\* uc_user_period_allocation: the INSERT of a row for (user, period) fails
\* with IntegrityError when the table holds a row of that pair
ViolatesNoConstraint(stored) == FALSE

ViolatesUniqueConstraint(stored) == stored.exists

\* create_salary_allocation_profile. The user_id dependency of the route is
\* a placeholder string, which the Integer column user_id refuses; the
\* INSERT can go through only where the dependency yields the user's id
CreateSalaryAllocationProfile ==
    \E profile_data \in SalaryPayloads, user_id_is_integer \in BOOLEAN :
        LET projected_discretionary_float ==
                profile_data.net_monthly_income
                  - profile_data.fixed_commitment_total
                  - ( profile_data.net_monthly_income
                        * profile_data.target_savings_rate ) \div 100
            inserted == /\ projected_discretionary_float >= 0
                        /\ user_id_is_integer
                        /\ ~ ViolatesUniqueConstraint(salary_profile)
        IN  /\ salary_profile' =
                  IF inserted
                  THEN NewSalaryProfile(profile_data.net_monthly_income,
                                        profile_data.fixed_commitment_total)
                  ELSE salary_profile
            /\ profile_rows' = IF inserted THEN profile_rows + 1 ELSE profile_rows
            /\ last' = [ BlankLast EXCEPT !.op = "create_salary_allocation_profile",
                             !.status = IF inserted THEN "ok" ELSE "error",
                             !.committed = inserted ]
            /\ UNCHANGED << smart_transfer_rule, sessions, user, financial_profile,
                            rules, ledger, spends, tx_count, history,
                            leakage_computed >>

\* orchestrate_update up to its commit, for a period without a row: the
\* query finds nothing and a new row is added to the session
OrchestrateUpdateBegin(s) ==
    \E prec \in Precisions, total_spend \in FixedTotals :
        \E f \in { calculate_fixed_total(prec, total_spend) } :
            /\ sessions[s].pc = "idle"
            /\ ~ salary_profile.exists
            /\ sessions' = [ sessions EXCEPT ![s] =
                   IF ~ f.ok THEN Returned("orchestrate_update", FALSE)
                   ELSE [ IdleSession EXCEPT
                            !.pc = "added", !.op = "orchestrate_update",
                            !.profile = NewSalaryProfile(user.monthly_salary, f.total) ] ]
            /\ UNCHANGED << smart_transfer_rule, profile_rows, user,
                            financial_profile, salary_profile, rules, ledger,
                            spends, tx_count, history, leakage_computed, last >>

\* the INSERT and commit of a request that has added a period row
InsertCommit(s) ==
    /\ sessions[s].pc = "added"
    /\ salary_profile' =
          IF ViolatesUniqueConstraint(salary_profile) THEN salary_profile
          ELSE sessions[s].profile
    /\ profile_rows' =
          IF ViolatesUniqueConstraint(salary_profile) THEN profile_rows
          ELSE profile_rows + 1
    /\ sessions' = [ sessions EXCEPT ![s].pc = "done",
                        ![s].committed = ~ ViolatesUniqueConstraint(salary_profile) ]
    /\ UNCHANGED << smart_transfer_rule, user, financial_profile, rules, ledger,
                    spends, tx_count, history, leakage_computed, last >>

NextCreation ==
    \/ CalculateAndSaveFinancialProfile
    \/ OrchestrateUpdate
    \/ CalculateLeakage
    \/ CreateSalaryAllocationProfile
    \/ \E s \in SessionIds : OrchestrateUpdateBegin(s)
    \/ \E s \in SessionIds : InsertCommit(s)

SpecCreation == Init /\ [][NextCreation]_vars

\* ------------------------------------------------------------------------
\* Properties
\* ------------------------------------------------------------------------
\* the fund a consent or a plan can draw on: projected_reclaimable_salary
\* minus total_autotransferred of the stored row (0 without a row)
AvailableFund ==
    salary_profile.projected_reclaimable_salary - salary_profile.total_autotransferred

\* exact sum of the amounts of the line items a consent commits
RECURSIVE PlanTotal(_)
PlanTotal(plan) ==
    IF plan = <<>> THEN 0
    ELSE PlanTotal(Tail(plan)) + Max(0, Head(plan).transfer_amount)

\* exact sum of the amounts of the DEBIT_INTERNAL ledger entries
RECURSIVE LedgerTotal(_)
LedgerTotal(lg) ==
    IF lg = <<>> THEN 0 ELSE LedgerTotal(Tail(lg)) + Head(lg).amount

\* C1: on every stored period profile on which leakage has been computed,
\* whatever recomputations, conversions and consent commits followed,
\* 0 <= total_autotransferred <= projected_reclaimable_salary
C1_TransferredWithinProjected ==
    ( salary_profile.exists /\ leakage_computed ) =>
        /\ 0 <= salary_profile.total_autotransferred
        /\ salary_profile.total_autotransferred
             <= salary_profile.projected_reclaimable_salary

\* C2: only the consent commit changes total_autotransferred, a rule's
\* amount_allocated_mtd or the ledger; the transaction-triggered recompute
\* leaves all three unchanged
C2_OnlyConsentCommitsFunds ==
    [][ ( \/ salary_profile'.total_autotransferred
               # salary_profile.total_autotransferred
          \/ \E id \in RuleIds : rules'[id].amount_allocated_mtd
                                   # rules[id].amount_allocated_mtd
          \/ ledger' # ledger )
        => last'.op = "record_consent_and_update_balance" ]_vars

\* C3: a consent whose plan total exceeds the available fund is rejected
\* and leaves the period profile, the rules and the ledger unchanged
C3_OverdrawnConsentRejected ==
    [][ ( /\ last'.op = "record_consent_and_update_balance"
          /\ PlanTotal(last'.plan) > AvailableFund )
        => ( /\ last'.status = "error"
             /\ salary_profile' = salary_profile
             /\ rules' = rules
             /\ ledger' = ledger ) ]_vars

\* C4: committing the payload that was just committed again changes
\* neither total_autotransferred nor the ledger
C4_RepeatedConsentIsNoOp ==
    [][ ( /\ last.op = "record_consent_and_update_balance"
          /\ last.committed
          /\ last'.op = "record_consent_and_update_balance"
          /\ last'.plan = last.plan )
        => ( /\ salary_profile'.total_autotransferred
                  = salary_profile.total_autotransferred
             /\ ledger' = ledger ) ]_vars

\* C5: in every committed state total_autotransferred equals the sum of the
\* amounts of the internal-transfer ledger entries
C5_TotalMatchesLedger ==
    salary_profile.total_autotransferred = LedgerTotal(ledger)

\* C6: every plan returned by generate_consent_suggestion_plan reports an
\* unallocated remainder, and total_suggested + remainder = available_fund
C6_PlanConservesFund ==
    ( last.op = "generate_consent_suggestion_plan" /\ last.status = "ok" )
    => ( /\ last.has_remaining
         /\ last.total_suggested + last.remaining_unallocated
              = last.available_fund )

\* C7: on every stored period profile on which calculate_leakage has
\* committed a result, 0 <= projected_reclaimable_salary
\* <= net income - fixed commitments - GLOBAL_MINIMAL_BASELINE_FLOOR
C7_ProjectedWithinGuardrail ==
    ( salary_profile.exists /\ leakage_computed ) =>
        /\ 0 <= salary_profile.projected_reclaimable_salary
        /\ salary_profile.projected_reclaimable_salary
             <= salary_profile.net_monthly_income
                  - salary_profile.fixed_commitment_total
                  - GLOBAL_MINIMAL_BASELINE_FLOOR

\* C8: above the noise threshold generate_consent_suggestion_plan returns
\* the waterfall over the active rules: tax-saving rules first, capped by the
\* remaining tax headroom of the period, then the other rules
C8_PlanIsWaterfall ==
    ( last.op = "generate_consent_suggestion_plan"
      /\ AvailableFund > NOISE_THRESHOLD )
    => ( /\ last.status = "ok"
         /\ last.suggestion_plan
              = WaterfallPlan(28, rules, AvailableFund,
                              salary_profile.tax_headroom_remaining).suggestion_plan )

\* C9: a returned plan is the empty standby plan if and only if the
\* available fund is below the noise threshold of 500
C9_StandbyBelowThreshold ==
    ( last.op = "generate_consent_suggestion_plan" /\ last.status = "ok" )
    => ( ( /\ last.standby
           /\ last.suggestion_plan = <<>>
           /\ last.total_suggested = 0 )
         <=> AvailableFund < NOISE_THRESHOLD )

\* C10: in every bucket calculate_leakage returns, a Variable-Essential or
\* Scaled-Discretionary category has leak_amount = max(0, spend - reconciled
\* baseline) >= 0 and a Pure-Discretionary category has leak_amount = spend
C10_BucketLeaks ==
    last.op \in {"calculate_leakage", "recalculate_current_period_leakage"}
    => \A b \in last.buckets :
          /\ b.tier = "scaled" =>
                /\ b.leak_amount = Max(0, b.spend - b.baseline_threshold)
                /\ b.leak_amount >= 0
          /\ b.tier = "pure" => b.leak_amount = b.spend

\* C10 witness: calculate_leakage has returned a bucket of a scaled category
\* spent above its reconciled baseline
C10_Witness ==
    /\ last.op = "calculate_leakage"
    /\ last.status = "ok"
    /\ \E b \in last.buckets :
          b.tier = "scaled" /\ b.spend > b.baseline_threshold /\ b.leak_amount > 0

C12_SmallCohortFallback ==
    ( last.op = "calculate_benchmark_factor"
      /\ Len(last.cohort_results) < MIN_COHORT_SIZE ) =>
        last.benchmark_factor = DEFAULT_FALLBACK_FACTOR

\* C12 witness: the benchmark has run on a cohort of three members whose own
\* most frugal ratio is not the fallback
C12_Witness ==
    /\ last.op = "calculate_benchmark_factor"
    /\ Len(last.cohort_results) = 3
    /\ last.benchmark_factor = DEFAULT_FALLBACK_FACTOR
    /\ \A prec \in Precisions :
          BenchmarkFromRatios(prec, EfficiencyRatios(prec, last.cohort_results))
            # DEFAULT_FALLBACK_FACTOR

\* the weight table the derived profile is declared with: 0.50 per further
\* adult, 0.20 / 0.30 / 0.50 per dependent under 6 / aged 6-17 / over 18
DeclaredEFS(h) ==
    ADULT_WEIGHT + (h.num_adults - 1) * SECOND_ADULT_WEIGHT
      + h.num_dependents_under_6 * DEPENDENT_UNDER_6_WEIGHT
      + h.num_dependents_6_to_17 * DEPENDENT_6_TO_17_WEIGHT
      + h.num_dependents_over_18 * DEPENDENT_OVER_18_WEIGHT

\* C13: every persisted e_family_size is the EFS of the user's household
\* under the one declared weight table (1.80 for two adults and one
\* dependent aged 6-17)
C13_OneWeightTable ==
    financial_profile.exists =>
        financial_profile.e_family_size = DeclaredEFS(user.household)

\* the household with one more dependent in an age band
MoreDependents(h) ==
    { [ h EXCEPT !.num_dependents_under_6 = @ + 1 ],
      [ h EXCEPT !.num_dependents_6_to_17 = @ + 1 ],
      [ h EXCEPT !.num_dependents_over_18 = @ + 1 ] }

\* C14: the EFS either calculator has just persisted for the household is
\* not above the EFS the same calculator returns for the household with one
\* more dependent in any age band
C14_EFSMonotone ==
    /\ ( last.op = "calculate_and_save_financial_profile" /\ last.committed ) =>
          \A h \in MoreDependents(user.household), prec \in Precisions :
              calculate_equivalent_family_size(prec, h)
                >= financial_profile.e_family_size
    /\ ( last.op = "calculate_and_save_dmb" /\ last.committed ) =>
          \A h \in MoreDependents(user.household), prec \in Precisions :
              service_calculate_equivalent_family_size(prec, h)
                >= financial_profile.e_family_size

\* C14 witness: calculate_and_save_financial_profile has persisted the EFS
\* of a household with dependents in every age band
C14_Witness ==
    /\ last.op = "calculate_and_save_financial_profile"
    /\ last.committed
    /\ user.household.num_dependents_under_6 > 0
    /\ user.household.num_dependents_6_to_17 > 0
    /\ user.household.num_dependents_over_18 > 0
    /\ financial_profile.e_family_size > ADULT_WEIGHT

BothConsentsCommitted ==
    \A s \in SessionIds :
        /\ sessions[s].pc = "done"
        /\ sessions[s].op = "record_consent_and_update_balance"
        /\ sessions[s].committed

\* C17: after two concurrent consent commits on a period with nothing
\* transferred before, total_autotransferred is the sum of the totals of
\* both requests and the sum of the ledger entries they appended
C17_NoLostConsentUpdate ==
    BothConsentsCommitted =>
        /\ salary_profile.total_autotransferred =
               sessions[1].total_transferred + sessions[2].total_transferred
        /\ salary_profile.total_autotransferred = LedgerTotal(ledger)

\* what calculate_leakage persists on the period row
LeakageTriple(p) ==
    << p.projected_reclaimable_salary, p.variable_spend_total,
       p.tax_headroom_remaining >>

\* both requests in flight were leakage recomputations and both have
\* committed
BothLeakagesCommitted ==
    \A s \in SessionIds :
        /\ sessions[s].pc = "done"
        /\ sessions[s].op = "calculate_leakage"
        /\ sessions[s].committed

\* the commit of the leakage recomputation r, after another request has
\* committed a consent on the row r had loaded
LeakageCommitAfterConsent(r) ==
    /\ sessions[r].pc = "loaded"
    /\ sessions[r].op = "calculate_leakage"
    /\ sessions'[r].pc = "done"
    /\ salary_profile.total_autotransferred
         # sessions[r].loaded.total_autotransferred

\* C18: after two concurrent leakage recomputations the row holds the whole
\* triple of one of the two runs, and the commit of a recomputation that
\* raced with a consent commit leaves what the consent wrote
C18_RecomputeWritesAreSerial ==
    /\ [] ( BothLeakagesCommitted =>
              \E s \in SessionIds :
                  LeakageTriple(salary_profile)
                    = LeakageTriple(sessions[s].profile) )
    /\ [][ \A r \in SessionIds : LeakageCommitAfterConsent(r) =>
              /\ salary_profile'.projected_reclaimable_salary
                   = salary_profile.projected_reclaimable_salary
              /\ salary_profile'.total_autotransferred
                   = salary_profile.total_autotransferred ]_vars

\* C19: every step leaves the entries the ledger already has as they are
\* and where they are: no entry is changed or deleted, the ledger only grows
C19_LedgerAppendOnly ==
    [][ /\ Len(ledger') >= Len(ledger)
        /\ SubSeq(ledger', 1, Len(ledger)) = ledger ]_vars

\* C19 witness: a consent has appended its entry behind an entry the
\* real-time conversion had recorded before
C19_Witness ==
    /\ last.op = "record_consent_and_update_balance"
    /\ last.committed
    /\ last.total_transferred > 0
    /\ Len(ledger) = 2
    /\ ledger[1].amount # ledger[2].amount
    /\ ledger[2].amount = last.total_transferred

\* the allocation state of a period row, derived from total_autotransferred
\* and projected_reclaimable_salary by the available-fund comparison of
\* generate_consent_suggestion_plan
AllocationState(p) ==
    LET available_fund == p.projected_reclaimable_salary - p.total_autotransferred
    IN  IF p.total_autotransferred <= 0
        THEN IF available_fund <= NOISE_THRESHOLD THEN "NO_FUND" ELSE "SUGGESTED"
        ELSE IF available_fund > 0 THEN "PARTIALLY_COMMITTED"
        ELSE "FULLY_COMMITTED"

\* the position of a state on NO_FUND -> SUGGESTED -> PARTIALLY_COMMITTED
\* -> FULLY_COMMITTED
StateRank(state) ==
    CASE state = "NO_FUND" -> 0
      [] state = "SUGGESTED" -> 1
      [] state = "PARTIALLY_COMMITTED" -> 2
      [] OTHER -> 3

\* C20: a consent commit on a period with a fund never moves the allocation
\* state backwards; a commit of part of the available fund leaves the state
\* PARTIALLY_COMMITTED and a commit of all of it FULLY_COMMITTED
C20_AllocationStateMovesForward ==
    [][ ( /\ last'.op = "record_consent_and_update_balance"
          /\ last'.committed
          /\ last'.total_transferred > 0
          /\ leakage_computed
          /\ AvailableFund > NOISE_THRESHOLD )
        => /\ StateRank(AllocationState(salary_profile'))
                >= StateRank(AllocationState(salary_profile))
           /\ last'.total_transferred < AvailableFund
                => AllocationState(salary_profile') = "PARTIALLY_COMMITTED"
           /\ last'.total_transferred = AvailableFund
                => AllocationState(salary_profile') = "FULLY_COMMITTED" ]_vars

\* exact sum of the amounts of the ledger entries recorded for a rule
RECURSIVE RuleLedgerTotal(_, _)
RuleLedgerTotal(lg, id) ==
    IF lg = <<>> THEN 0
    ELSE RuleLedgerTotal(Tail(lg), id)
           + IF Head(lg).smart_rule_id = id THEN Head(lg).amount ELSE 0

\* C21: after any sequence of conversions and consent commits the
\* month-to-date funded amount of every rule is the sum of the ledger
\* entries recorded for that rule
C21_RuleFundedMatchesLedger ==
    \A id \in RuleIds :
        rules[id].amount_allocated_mtd = RuleLedgerTotal(ledger, id)

\* the operations that need the period profile of the request
NeedsPeriodProfile ==
    { "calculate_leakage", "generate_consent_suggestion_plan",
      "record_consent_and_update_balance" }

\* C22: leakage computation, suggestion and consent commit (with any plan)
\* for a period without a period profile end in an error and create no
\* period profile
C22_MissingProfileIsReported ==
    [][ ( last'.op \in NeedsPeriodProfile /\ ~ salary_profile.exists )
        => /\ last'.status = "error"
           /\ ~ salary_profile'.exists ]_vars

\* the stored period profile has no variable pool: net income is not above
\* the fixed commitments
NoVariablePool ==
    /\ salary_profile.exists
    /\ salary_profile.net_monthly_income <= salary_profile.fixed_commitment_total

\* C23: with net income <= fixed commitments, calculate_leakage and
\* calculate_and_save_dmb do not raise, every category baseline is zero and
\* the essential target is zero
C23_BaselinesCollapseToZero ==
    [][ /\ ( last'.op = "calculate_leakage" /\ NoVariablePool /\ financial_profile.exists )
           => /\ last'.status = "ok"
              /\ \A c \in ScaledCategories : last'.thresholds[c] = 0
        /\ ( last'.op = "calculate_and_save_dmb" /\ NoVariablePool )
           => /\ last'.status = "ok"
              /\ financial_profile'.essential_target = 0 ]_vars

\* base_need * EFS * region multiplier * efficiency factor, exact and then
\* rounded to cents (the factors are in hundredths)
ExactCategoryDMB(cat, equivalent_family_size, city_tier, income_slab) ==
    RoundHalfEven(
        ( ( ( ( BASE_NEEDS_INDEX[cat] * equivalent_family_size ) \div 100 )
              * CITY_COST_MULTIPLIERS(city_tier) ) \div 100 )
          * DEFAULT_EFFICIENCY_FACTORS(income_slab), 100)

\* the sum of the exact category DMBs
ExactTotalNeed(equivalent_family_size, city_tier, income_slab) ==
    ExactCategoryDMB("Variable_Essential_Food", equivalent_family_size, city_tier, income_slab)
      + ExactCategoryDMB("Variable_Essential_Transport", equivalent_family_size, city_tier, income_slab)
      + ExactCategoryDMB("Variable_Essential_Health", equivalent_family_size, city_tier, income_slab)
      + ExactCategoryDMB("Scaled_Discretionary_Routine", equivalent_family_size, city_tier, income_slab)

\* C24: for the stored EFS of the user and every precision of the decimal
\* context, calculate_dynamic_baseline does not raise, its total minimal
\* need is the sum of the exact category DMBs and its leakage threshold is
\* that total times (1 - 0.15)
C24_BaselineIsExactProduct ==
    financial_profile.exists =>
        \A prec \in Precisions :
            LET r == calculate_dynamic_baseline(prec, user.monthly_salary,
                         financial_profile.e_family_size, user.city_tier,
                         user.income_slab, NoFactor)
                need == ExactTotalNeed(financial_profile.e_family_size,
                                       user.city_tier, user.income_slab)
            IN  /\ r.ok
                /\ r.Total_Minimal_Need_DMB = need
                /\ r.Total_Leakage_Threshold
                     = RoundHalfEven(need * (100 - LEAK_SAVINGS_MARGIN_PERCENTAGE), 100)

\* C25: the cohort of calculate_benchmark_factor holds no profile of the
\* requesting user and at most one profile per other user
C25_CohortOfDistinctUsers ==
    last.op = "calculate_benchmark_factor" =>
        \A i \in 1..Len(last.cohort_results) :
            /\ last.cohort_results[i].user_id # CURRENT_USER_ID
            /\ \A j \in 1..Len(last.cohort_results) :
                   i # j => last.cohort_results[i].user_id
                              # last.cohort_results[j].user_id

\* C26: every smart_transfer_rule row of a state is a row of the next state,
\* with the same rule_id and name: no operation removes a rule
C26_RulesAreNeverRemoved ==
    [][ \A r \in smart_transfer_rule.rows :
            \E q \in smart_transfer_rule'.rows :
                q.rule_id = r.rule_id /\ q.rule_name = r.rule_name ]_vars

\* C27: generate_consent_suggestion_plan leaves the period profile, the
\* rules and the ledger as they are, and creates no period profile
C27_SuggestionIsReadOnly ==
    [][ last'.op = "generate_consent_suggestion_plan"
        => /\ salary_profile' = salary_profile
           /\ rules' = rules
           /\ ledger' = ledger
           /\ financial_profile' = financial_profile ]_vars

\* C27 witness: a suggestion was asked for a period without a profile,
\* and none exists afterwards
C27_Witness ==
    /\ last.op = "generate_consent_suggestion_plan"
    /\ last.standby
    /\ ~ salary_profile.exists
    /\ financial_profile.exists

C29_ConsentLowersFundByTotal ==
    [][ ( /\ last'.op = "record_consent_and_update_balance"
          /\ last'.status = "ok"
          /\ last'.committed )
        => /\ salary_profile'.projected_reclaimable_salary
                = salary_profile.projected_reclaimable_salary
           /\ salary_profile'.total_autotransferred
                = salary_profile.total_autotransferred + last'.total_transferred
           /\ salary_profile'.projected_reclaimable_salary
                - salary_profile'.total_autotransferred
                = AvailableFund - last'.total_transferred ]_vars

\* C30: amount_allocated_mtd of a rule never exceeds its
\* target_amount_monthly, and a step that funds rules funds one rule only:
\* an active rule below its target that no active rule below its target
\* outranks
C30_FundedWithinTarget ==
    /\ [] ( \A id \in RuleIds :
              rules[id].amount_allocated_mtd <= rules[id].target_amount_monthly )
    /\ [][ rules' # rules =>
             \E id \in RuleIds :
                /\ rules[id].is_active
                /\ rules[id].amount_allocated_mtd < rules[id].target_amount_monthly
                /\ \A other \in RuleIds :
                      ( /\ rules[other].is_active
                        /\ rules[other].amount_allocated_mtd
                             < rules[other].target_amount_monthly )
                      => rules[other].priority <= rules[id].priority
                /\ rules'[id].amount_allocated_mtd > rules[id].amount_allocated_mtd
                /\ \A other \in RuleIds \ {id} : rules'[other] = rules[other]
         ]_vars

\* C30 witness: conversions have brought the partly funded first rule up to
\* its target and gone on to the rule next in priority
C30_Witness ==
    /\ rules[1].target_amount_monthly = PartlyFundedRules[1].target_amount_monthly
    /\ rules[1].amount_allocated_mtd = rules[1].target_amount_monthly
    /\ rules[2].amount_allocated_mtd > 0
    /\ Len(ledger) >= 2

====
